---- MODULE Spec2Model ----
(***************************************************************************)
(* A model of the eegos connection/session layer and of the RPC call      *)
(* layer above it.  One session is modelled together with the goroutines  *)
(* that work on it: the read pump and the write pump (Session.handleRead, *)
(* Session.handleWrite), the connection manager's dispatch task           *)
(* (processInData), the ad-hoc goroutines it starts, and the peer at the  *)
(* other end of the TCP connection.  Every goroutine is a record in the   *)
(* bag procs; an action is one step of one goroutine.                     *)
(***************************************************************************)
EXTENDS Bags, FiniteSets, Integers, Sequences, TLC

VARIABLES
    side,           \* "server", "client" or "api": who owns the session
    state,          \* Session.state
    inData,         \* Session.inData, a channel of capacity 1
    inDataClosed,   \* close(inData) has run
    outData,        \* Session.outData, a channel of capacity 1
    outDataClosed,  \* close(outData) has run
    cCloseClosed,   \* close(cClose) has run (cClose is unbuffered)
    connClosed,     \* Session.conn has been closed on this side
    wire,           \* frames the peer has sent and the read pump has not read
    peerClosed,     \* the peer has closed its end of the connection
    nSent,          \* number of frames the peer has sent
    written,        \* packages written to the connection, in order
    procs,          \* the live goroutines
    events,         \* Handler events raised so far
    crashed,        \* an unrecovered panic has ended the process
    releaseCalls,   \* number of invocations of Session.Release
    closeSignals,   \* number of values delivered or offered on cClose
    pumpsAtRelease, \* the pumps still running when Release was last invoked
    dropped,        \* the sends doWrite has refused: <<frame, state seen>>
    isOpen,         \* TcpConn.isOpen
    cHeartbeatClosed, \* close(TcpClient.cHeartbeat) has run (unbuffered)
    ticker,         \* TcpClient.ticker: armed or not, and what its channel holds
    nFired,         \* number of times the ticker has fired
    msgCounter,     \* TcpClient.msgCounter.Num
    callRet,        \* Client.callRet: correlation id -> waiter channel
    chClosed,       \* the waiter channels that have been closed
    results,        \* what each finished Call returned, by its waiter channel
    nCalls,         \* number of Call and Send invocations so far
    apiCalls,       \* number of direct calls of Session methods and of
                    \* Client.Send so far
    sessionCounter, \* network.sessionCounter.Num
    fd,             \* Session.fd of the modelled session (0: not created)
    sessions,       \* Server.sessions: session id -> session
    nConns,         \* number of other connections the server has accepted
    misrouted,      \* replies enqueued on another session: <<frame, session>>
    enqueued,       \* the frames doWrite has put on outData so far
    taken,          \* what the server's dispatch task has taken from inData,
                    \* in order: the frame and the state of the session then
    allocated,      \* the values Counter.GetNum has read under its lock, in
                    \* order (kept where GetNum is modelled step by step)
    serviceMap,     \* Server.serviceMap: service name -> method table
    clock           \* time in seconds: now, what is left on TcpClient.ticker,
                    \* and what the passing of time is measured against

vars == <<side, state, inData, inDataClosed, outData, outDataClosed,
          cCloseClosed, connClosed, wire, peerClosed, nSent, written, procs,
          events, crashed, releaseCalls, closeSignals, pumpsAtRelease, dropped,
          isOpen, cHeartbeatClosed, ticker, nFired, msgCounter, callRet,
          chClosed, results, nCalls, apiCalls,
          sessionCounter, fd, sessions, nConns, misrouted, enqueued, taken,
          allocated, serviceMap, clock>>

\* The allocation of session ids, the RPC server's session table and the
\* record of what was sent.
tableVars == <<sessionCounter, fd, sessions, nConns, misrouted, enqueued,
               taken>>

\* The state of the client side and of the callers of the session's methods.
clientVars == <<cHeartbeatClosed, ticker, nFired, msgCounter, callRet,
                chClosed, results, nCalls, apiCalls>>

(***************************************************************************)
(* Program constants.                                                      *)
(***************************************************************************)
NEW_CONNECTION == 0
WORKING == 1
CLOSING == 2
CLOSED == 3

PKG_TYPE == 0
HEARTBEAT == 1
HEARTBEAT_RET == 2
DATA == 3

\* make(chan *Data, 1) and make(chan []byte, 1)
InDataCap == 1
OutDataCap == 1

(***************************************************************************)
(* Bounds of the model.                                                    *)
(***************************************************************************)
\* frames the peer sends during one run
MaxFrames == 2

(***************************************************************************)
(* Frames and goroutines.                                                  *)
(***************************************************************************)
Frame(t, h, b) == [dType |-> t, head |-> h, body |-> b]
NoFrame == Frame(PKG_TYPE, 0, "")
\* What the read pump holds once Reader has returned an error.
ReadError == Frame(PKG_TYPE, 0, "error")

\* A goroutine: what it runs, where it is, the frame it carries and the waiter
\* channel it holds (0: none).
Proc(k, p, f) == [kind |-> k, pc |-> p, f |-> f, ch |-> 0]

Live == BagToSet(procs)
Spawn(ps, t) == ps (+) SetToBag({t})
Kill(ps, t) == ps (-) SetToBag({t})
Move(ps, t, u) == Spawn(Kill(ps, t), u)

\* Bodies of DATA frames, by what the RPC layer makes of the envelope.
Bodies == {"call", "bad"}

\* What a client sends to the server: every frame of a TcpClient carries the
\* next value of its msgCounter, so the n-th frame carries n.
ClientFrames(n) ==
    { Frame(t, n, "") : t \in {PKG_TYPE, HEARTBEAT, HEARTBEAT_RET} }
    \cup { Frame(DATA, n, b) : b \in Bodies }

\* The Handler events raised so far with name e.
Raised(e) == { x \in events : x.ev = e }

\* A Handler event, with the session id every event is raised with, stamped
\* with what had been raised before it: how many
\* events with the same name and correlation id, how many Connect events and
\* how many Close events.
Event(e, h, b) ==
    [ev |-> e, fd |-> fd, head |-> h, body |-> b,
     nth |-> Cardinality({ x \in Raised(e) : x.head = h }),
     connects |-> Cardinality(Raised("Connect")),
     closes |-> Cardinality(Raised("Close"))]

Raise(e, h) == events \cup {Event(e, h, "")}

\* The Message event carries the body of the frame.
RaiseMessage(h, b) == events \cup {Event("Message", h, b)}

\* The waiter channels registered in Client.callRet.
Waiters == { callRet[id] : id \in DOMAIN callRet }

\* time.NewTimer(5 * time.Second), ticker.Reset(5 * time.Second) and
\* time.After(3 * time.Second), in seconds.
Interval == 5
AckTimeout == 3

\* The clock when the client is made: the timer has its whole interval left,
\* no time has passed since a frame arrived (none has), the heartbeat task
\* waits for no acknowledgment.
Clock0 == [now |-> 0, left |-> Interval, idle |-> 0, seen |-> 0,
           wait |-> 0, fired |-> 0]

\* util.Counter.GetNum on a uint16: this.Num++ wraps at 65536.
CounterWidth == 65536
GetNum(num) == (num + 1) % CounterWidth

(***************************************************************************)
(* Session.handleRead: the read pump.                                      *)
(***************************************************************************)
\* for { if this.state != WORKING { break } ...
handleRead_check(t) ==
    /\ ~crashed
    /\ t.kind = "handleRead" /\ t.pc = "check"
    /\ procs' = Move(procs, t,
                     [t EXCEPT !.pc = IF state # WORKING THEN "connClose" ELSE "read"])
    /\ UNCHANGED <<side, allocated, serviceMap, clock, tableVars, state,
                   inData, inDataClosed, outData, outDataClosed, cCloseClosed,
                   connClosed, wire, peerClosed, nSent, written, events,
                   crashed, releaseCalls, closeSignals, pumpsAtRelease,
                   dropped, isOpen, clientVars>>

\* (a Reader that takes the frame sent last instead of the one sent first)
Reader_read_Newest(t) ==
    /\ ~crashed
    /\ t.kind = "handleRead" /\ t.pc = "read"
    /\ connClosed \/ wire # <<>> \/ peerClosed
    /\ IF ~connClosed /\ wire # <<>>
       THEN /\ procs' = Move(procs, t, [t EXCEPT !.pc = "push",
                                                 !.f = wire[Len(wire)]])
            /\ wire' = SubSeq(wire, 1, Len(wire) - 1)
       ELSE /\ procs' = Move(procs, t, [t EXCEPT !.pc = "connClose",
                                                 !.f = ReadError])
            /\ wire' = wire
    /\ UNCHANGED <<side, allocated, serviceMap, clock, tableVars, state,
                   inData, inDataClosed, outData, outDataClosed, cCloseClosed,
                   connClosed, peerClosed, nSent, written, events, crashed,
                   releaseCalls, closeSignals, pumpsAtRelease, dropped, isOpen,
                   clientVars>>

\* Session.Reader, the two io.ReadFull calls: a whole frame, or an error once
\* the connection is closed here or the peer has closed and nothing is left.
\* With nothing to read and the connection open the read blocks.
Reader_read(t) ==
    /\ ~crashed
    /\ t.kind = "handleRead" /\ t.pc = "read"
    /\ connClosed \/ wire # <<>> \/ peerClosed
    /\ IF ~connClosed /\ wire # <<>>
       THEN /\ procs' = Move(procs, t, [t EXCEPT !.pc = "push", !.f = Head(wire)])
            /\ wire' = Tail(wire)
       ELSE /\ procs' = Move(procs, t, [t EXCEPT !.pc = "connClose", !.f = ReadError])
            /\ wire' = wire
    /\ UNCHANGED <<side, allocated, serviceMap, clock, tableVars, state,
                   inData, inDataClosed, outData, outDataClosed, cCloseClosed,
                   connClosed, peerClosed, nSent, written, events, crashed,
                   releaseCalls, closeSignals, pumpsAtRelease, dropped, isOpen,
                   clientVars>>

\* (a read pump that pushes whether or not the queue has room)
Reader_push_Unbounded(t) ==
    /\ ~crashed
    /\ t.kind = "handleRead" /\ t.pc = "push"
    /\ IF inDataClosed
       THEN /\ procs' = Move(procs, t, [t EXCEPT !.pc = "connClose", !.f = NoFrame])
            /\ inData' = inData
       ELSE /\ procs' = Move(procs, t, [t EXCEPT !.pc = "check", !.f = NoFrame])
            /\ inData' = Append(inData, t.f)
    /\ UNCHANGED <<side, allocated, serviceMap, clock, tableVars, state,
                   inDataClosed, outData, outDataClosed, cCloseClosed,
                   connClosed, wire, peerClosed, nSent, written, events,
                   crashed, releaseCalls, closeSignals, pumpsAtRelease,
                   dropped, isOpen, clientVars>>

\* this.inData <- pkg: blocks while the channel is full; a send on the closed
\* channel panics, and the panic runs the deferred function of handleRead.
Reader_push(t) ==
    /\ ~crashed
    /\ t.kind = "handleRead" /\ t.pc = "push"
    /\ inDataClosed \/ Len(inData) < InDataCap
    /\ IF inDataClosed
       THEN /\ procs' = Move(procs, t, [t EXCEPT !.pc = "connClose", !.f = NoFrame])
            /\ inData' = inData
       ELSE /\ procs' = Move(procs, t, [t EXCEPT !.pc = "check", !.f = NoFrame])
            /\ inData' = Append(inData, t.f)
    /\ UNCHANGED <<side, allocated, serviceMap, clock, tableVars, state,
                   inDataClosed, outData, outDataClosed, cCloseClosed,
                   connClosed, wire, peerClosed, nSent, written, events,
                   crashed, releaseCalls, closeSignals, pumpsAtRelease,
                   dropped, isOpen, clientVars>>

\* defer: this.conn.Close()
handleRead_connClose_Skipped(t) ==
    /\ ~crashed
    /\ t.kind = "handleRead" /\ t.pc = "connClose"
    /\ procs' = Move(procs, t, [t EXCEPT !.pc = "signal"])
    /\ UNCHANGED <<side, allocated, serviceMap, clock, tableVars, state,
                   inData, inDataClosed, outData, outDataClosed, cCloseClosed,
                   connClosed, wire, peerClosed, nSent, written, events,
                   crashed, releaseCalls, closeSignals, pumpsAtRelease,
                   dropped, isOpen, clientVars>>

handleRead_connClose(t) ==
    /\ ~crashed
    /\ t.kind = "handleRead" /\ t.pc = "connClose"
    /\ connClosed' = TRUE
    /\ procs' = Move(procs, t, [t EXCEPT !.pc = "signal"])
    /\ UNCHANGED <<side, allocated, serviceMap, clock, tableVars, state,
                   inData, inDataClosed, outData, outDataClosed, cCloseClosed,
                   wire, peerClosed, nSent, written, events, crashed,
                   releaseCalls, closeSignals, pumpsAtRelease, dropped, isOpen,
                   clientVars>>

\* defer: this.cClose <- true, when cClose has been closed: the send panics
\* inside the deferred function, before its recover() is reached.
handleRead_signalClosed(t) ==
    /\ ~crashed
    /\ t.kind = "handleRead" /\ t.pc = "signal"
    /\ cCloseClosed
    /\ crashed' = TRUE
    /\ closeSignals' = closeSignals + 1
    /\ UNCHANGED <<side, allocated, serviceMap, clock, tableVars, state,
                   inData, inDataClosed, outData, outDataClosed, cCloseClosed,
                   connClosed, wire, peerClosed, nSent, written, procs, events,
                   releaseCalls, pumpsAtRelease, dropped, isOpen, clientVars>>

(***************************************************************************)
(* Session.handleWrite: the write pump.                                    *)
(***************************************************************************)
\* for { if this.state != WORKING { break } ...
handleWrite_check(t) ==
    /\ ~crashed
    /\ t.kind = "handleWrite" /\ t.pc = "check"
    /\ procs' = Move(procs, t,
                     [t EXCEPT !.pc = IF state # WORKING THEN "connClose" ELSE "recv"])
    /\ UNCHANGED <<side, allocated, serviceMap, clock, tableVars, state,
                   inData, inDataClosed, outData, outDataClosed, cCloseClosed,
                   connClosed, wire, peerClosed, nSent, written, events,
                   crashed, releaseCalls, closeSignals, pumpsAtRelease,
                   dropped, isOpen, clientVars>>

\* case pkg, ok := <-this.outData: blocks while the channel is open and empty;
\* a closed and drained channel yields ok = false at once.
handleWrite_recv(t) ==
    /\ ~crashed
    /\ t.kind = "handleWrite" /\ t.pc = "recv"
    /\ outData # <<>> \/ outDataClosed
    /\ IF outData # <<>>
       THEN /\ procs' = Move(procs, t, [t EXCEPT !.pc = "write", !.f = Head(outData)])
            /\ outData' = Tail(outData)
       ELSE /\ procs' = Move(procs, t, [t EXCEPT !.pc = "check"])
            /\ outData' = outData
    /\ UNCHANGED <<side, allocated, serviceMap, clock, tableVars, state,
                   inData, inDataClosed, outDataClosed, cCloseClosed,
                   connClosed, wire, peerClosed, nSent, written, events,
                   crashed, releaseCalls, closeSignals, pumpsAtRelease,
                   dropped, isOpen, clientVars>>

\* (the write pump taking packages off the queue and writing none)
handleWrite_write_Discarding(t) ==
    /\ ~crashed
    /\ t.kind = "handleWrite" /\ t.pc = "write"
    /\ written' = written
    /\ procs' = Move(procs, t, [t EXCEPT !.pc = "check", !.f = NoFrame])
    /\ UNCHANGED <<side, allocated, serviceMap, clock, tableVars, state,
                   inData, inDataClosed, outData, outDataClosed, cCloseClosed,
                   connClosed, wire, peerClosed, nSent, events, crashed,
                   releaseCalls, closeSignals, pumpsAtRelease, dropped, isOpen,
                   clientVars>>

\* this.conn.Write(pkg): the error of a write on a closed connection is ignored.
handleWrite_write(t) ==
    /\ ~crashed
    /\ t.kind = "handleWrite" /\ t.pc = "write"
    /\ written' = IF connClosed THEN written ELSE Append(written, t.f)
    /\ procs' = Move(procs, t, [t EXCEPT !.pc = "check", !.f = NoFrame])
    /\ UNCHANGED <<side, allocated, serviceMap, clock, tableVars, state,
                   inData, inDataClosed, outData, outDataClosed, cCloseClosed,
                   connClosed, wire, peerClosed, nSent, events, crashed,
                   releaseCalls, closeSignals, pumpsAtRelease, dropped, isOpen,
                   clientVars>>

\* this.conn.Close() after the loop
handleWrite_connClose(t) ==
    /\ ~crashed
    /\ t.kind = "handleWrite" /\ t.pc = "connClose"
    /\ connClosed' = TRUE
    /\ procs' = Move(procs, t, [t EXCEPT !.pc = "done"])
    /\ UNCHANGED <<side, allocated, serviceMap, clock, tableVars, state,
                   inData, inDataClosed, outData, outDataClosed, cCloseClosed,
                   wire, peerClosed, nSent, written, events, crashed,
                   releaseCalls, closeSignals, pumpsAtRelease, dropped, isOpen,
                   clientVars>>

\* The pumps of the session that have been started and have not returned.
RunningPumps ==
    { t.kind : t \in { u \in Live : u.kind \in {"handleRead", "handleWrite"}
                                     /\ u.pc # "done" } }

(***************************************************************************)
(* Session.doWrite, run by the goroutine t from where it is called.        *)
(***************************************************************************)
\* A frame put on outData, stamped with how many times the same frame had been
\* put there before and with how many frames had been put there before it.
Enqueue(f) ==
    enqueued \cup {[frame |-> f,
                    nth |-> Cardinality({ e \in enqueued : e.frame = f }),
                    at |-> Cardinality(enqueued)]}

\* Where the caller of doWrite goes on when doWrite returns: a goroutine
\* started as `go s.doWrite(...)` and the RPC server's Message end there, and
\* Client.Call goes on to its select.
AfterWrite(ps, t) ==
    IF t.kind = "Call" THEN Move(ps, t, [t EXCEPT !.pc = "wait"]) ELSE Kill(ps, t)

\* (doWrite without its check of the state)
doWrite_check_Unguarded(t) ==
    /\ ~crashed
    /\ t.pc = "dw_check"
    /\ procs' = Move(procs, t, [t EXCEPT !.pc = "dw_send"])
    /\ UNCHANGED <<side, allocated, serviceMap, clock, tableVars, state,
                   inData, inDataClosed, outData, outDataClosed, cCloseClosed,
                   connClosed, wire, peerClosed, nSent, written, events,
                   crashed, releaseCalls, closeSignals, pumpsAtRelease,
                   dropped, isOpen, clientVars>>

\* if this.state != WORKING { log.Error(...); return }; pkg := this.pack(...)
doWrite_check(t) ==
    /\ ~crashed
    /\ t.pc = "dw_check"
    /\ IF state # WORKING
       THEN /\ procs' = AfterWrite(procs, t)
            /\ dropped' = dropped \cup {<<t.f, state>>}
       ELSE /\ procs' = Move(procs, t, [t EXCEPT !.pc = "dw_send"])
            /\ dropped' = dropped
    /\ UNCHANGED <<side, allocated, serviceMap, clock, tableVars, state,
                   inData, inDataClosed, outData, outDataClosed, cCloseClosed,
                   connClosed, wire, peerClosed, nSent, written, events,
                   crashed, releaseCalls, closeSignals, pumpsAtRelease, isOpen,
                   clientVars>>

\* this.outData <- pkg: blocks while the channel is full; a send on the closed
\* channel panics in a goroutine that recovers nothing.
doWrite_send(t) ==
    /\ ~crashed
    /\ t.pc = "dw_send"
    /\ outDataClosed \/ Len(outData) < OutDataCap
    /\ IF outDataClosed
       THEN /\ crashed' = TRUE
            /\ UNCHANGED <<outData, procs>>
       ELSE /\ outData' = Append(outData, t.f)
            /\ procs' = AfterWrite(procs, t)
            /\ crashed' = crashed
    /\ enqueued' = IF outDataClosed THEN enqueued ELSE Enqueue(t.f)
    /\ UNCHANGED <<side, allocated, serviceMap, clock, sessionCounter, fd,
                   sessions, nConns, misrouted, taken, state, inData,
                   inDataClosed, outDataClosed, cCloseClosed, connClosed, wire,
                   peerClosed, nSent, written, events, releaseCalls,
                   closeSignals, pumpsAtRelease, dropped, isOpen, clientVars>>

(***************************************************************************)
(* Session.Start, Session.Close, Session.Release.                          *)
(***************************************************************************)
\* this.state = WORKING; go this.handleRead(); go this.handleWrite()
\* (ps: the goroutines but for the two that Start adds)
Start(ps) ==
    /\ state' = WORKING
    /\ procs' = Spawn(Spawn(ps, Proc("handleRead", "check", NoFrame)),
                      Proc("handleWrite", "check", NoFrame))

\* this.state = CLOSING
Close == state' = CLOSING

\* close(this.inData), the first statement of Release: closing a closed
\* channel panics.
Release_inData(t) ==
    /\ ~crashed
    /\ t.pc = "rel_in"
    /\ releaseCalls' = releaseCalls + 1
    /\ pumpsAtRelease' = RunningPumps
    /\ IF inDataClosed
       THEN /\ crashed' = TRUE
            /\ UNCHANGED <<inDataClosed, procs>>
       ELSE /\ inDataClosed' = TRUE
            /\ procs' = Move(procs, t, [t EXCEPT !.pc = "rel_out"])
            /\ crashed' = crashed
    /\ UNCHANGED <<side, allocated, serviceMap, clock, tableVars, state,
                   inData, outData, outDataClosed, cCloseClosed, connClosed,
                   wire, peerClosed, nSent, written, events, closeSignals,
                   dropped, isOpen, clientVars>>

\* close(this.outData)
Release_outData(t) ==
    /\ ~crashed
    /\ t.pc = "rel_out"
    /\ outDataClosed' = TRUE
    /\ procs' = Move(procs, t, [t EXCEPT !.pc = "rel_cClose"])
    /\ UNCHANGED <<side, allocated, serviceMap, clock, tableVars, state,
                   inData, inDataClosed, outData, cCloseClosed, connClosed,
                   wire, peerClosed, nSent, written, events, crashed,
                   releaseCalls, closeSignals, pumpsAtRelease, dropped, isOpen,
                   clientVars>>

\* close(this.cClose)
Release_cClose(t) ==
    /\ ~crashed
    /\ t.pc = "rel_cClose"
    /\ cCloseClosed' = TRUE
    /\ procs' = Move(procs, t, [t EXCEPT !.pc = "rel_state"])
    /\ UNCHANGED <<side, allocated, serviceMap, clock, tableVars, state,
                   inData, inDataClosed, outData, outDataClosed, connClosed,
                   wire, peerClosed, nSent, written, events, crashed,
                   releaseCalls, closeSignals, pumpsAtRelease, dropped, isOpen,
                   clientVars>>

\* (a dispatch task that goes round its loop again after this.Close(s))
AfterRelease_NoReturn(ps, t) ==
    IF t.kind = "processInData" THEN Move(ps, t, [t EXCEPT !.pc = "loop"])
    ELSE Kill(ps, t)

\* What the caller of Release does next: processInData has
\* `this.Close(s); return` in its close-signal branch.
AfterRelease(ps, t) == Kill(ps, t)

\* this.state = CLOSED, and Release returns.
Release_state(t) ==
    /\ ~crashed
    /\ t.pc = "rel_state"
    /\ state' = CLOSED
    /\ procs' = AfterRelease(procs, t)
    /\ UNCHANGED <<side, allocated, serviceMap, clock, tableVars, inData,
                   inDataClosed, outData, outDataClosed, cCloseClosed,
                   connClosed, wire, peerClosed, nSent, written, events,
                   crashed, releaseCalls, closeSignals, pumpsAtRelease,
                   dropped, isOpen, clientVars>>

(***************************************************************************)
(* The peer at the other end of the connection.                            *)
(***************************************************************************)
PeerSend(f) ==
    /\ ~crashed
    /\ ~peerClosed
    /\ nSent < MaxFrames
    /\ wire' = Append(wire, f)
    /\ nSent' = nSent + 1
    /\ UNCHANGED <<side, allocated, serviceMap, clock, tableVars, state,
                   inData, inDataClosed, outData, outDataClosed, cCloseClosed,
                   connClosed, peerClosed, written, procs, events, crashed,
                   releaseCalls, closeSignals, pumpsAtRelease, dropped, isOpen,
                   clientVars>>

\* The peer closes the connection (or the connection breaks): the read pump
\* sees end-of-stream or an error once it has read what was sent before.
PeerClose ==
    /\ ~crashed
    /\ ~peerClosed
    /\ peerClosed' = TRUE
    /\ UNCHANGED <<side, allocated, serviceMap, clock, tableVars, state,
                   inData, inDataClosed, outData, outDataClosed, cCloseClosed,
                   connClosed, wire, nSent, written, procs, events, crashed,
                   releaseCalls, closeSignals, pumpsAtRelease, dropped, isOpen,
                   clientVars>>

(***************************************************************************)
(* TcpServer.handleNewConn and TcpConn.NewSession.                         *)
(***************************************************************************)
\* s := this.NewSession(conn): CreateSession, which sets
\* session.fd = sessionCounter.GetNum(), then session.Start()
NewSession(t) ==
    /\ ~crashed
    /\ t.kind \in {"handleNewConn", "Dial"} /\ t.pc = "newSession"
    /\ sessionCounter' = GetNum(sessionCounter)
    /\ fd' = GetNum(sessionCounter)
    /\ Start(Move(procs, t, [t EXCEPT !.pc = "connect"]))
    /\ UNCHANGED <<side, allocated, serviceMap, clock, sessions, nConns,
                   misrouted, enqueued, taken, inData, inDataClosed, outData,
                   outDataClosed, cCloseClosed, connClosed, wire, peerClosed,
                   nSent, written, events, crashed, releaseCalls, closeSignals,
                   pumpsAtRelease, dropped, isOpen, clientVars>>

\* The modelled session in Server.sessions; the sessions of the other
\* connections are 1, 2, ... in the order they were accepted.
Self == 0

\* (Server.Connect keeping every session under one key)
Server_Connect_OneKey(tbl, id, s) ==
    [x \in DOMAIN tbl \cup {1} |-> IF x = 1 THEN s ELSE tbl[x]]

\* Server.Connect: this.sessions[fd] = session
Server_Connect(tbl, id, s) ==
    [x \in DOMAIN tbl \cup {id} |-> IF x = id THEN s ELSE tbl[x]]

\* connections the server accepts besides the modelled one during one run
MaxOtherConns == 1

\* Server.sessions is a plain map that Server.Connect writes and
\* Server.Message reads in goroutines of their own, under no lock.  A
\* goroutine of another connection is inside the map assignment.
MapWriting == \E u \in Live : u.kind = "OtherConn" /\ u.pc = "assign"

\* go this.handleNewConn(conn) for another connection: its session takes the
\* next session id, and its goroutine enters this.sessions[fd] = session of
\* Server.Connect.  A second writer inside the assignment is a data race,
\* which the runtime may end with "fatal error: concurrent map writes".
OtherConn ==
    /\ ~crashed
    /\ side = "server"
    /\ nConns < MaxOtherConns
    /\ nConns' = nConns + 1
    /\ sessionCounter' = GetNum(sessionCounter)
    /\ procs' = Spawn(procs, [kind |-> "OtherConn", pc |-> "assign", ch |-> 0,
                              f |-> [fd |-> GetNum(sessionCounter),
                                     session |-> nConns + 1]])
    /\ \E fatal \in (IF MapWriting THEN BOOLEAN ELSE {FALSE}) : crashed' = fatal
    /\ UNCHANGED <<side, allocated, serviceMap, clock, fd, sessions, misrouted,
                   enqueued, taken, state, inData, inDataClosed, outData,
                   outDataClosed, cCloseClosed, connClosed, wire, peerClosed,
                   nSent, written, events, releaseCalls, closeSignals,
                   pumpsAtRelease, dropped, isOpen, clientVars>>

\* this.sessions[fd] = session, done.
Server_Connect_done(t) ==
    /\ ~crashed
    /\ t.kind = "OtherConn" /\ t.pc = "assign"
    /\ sessions' = Server_Connect(sessions, t.f.fd, t.f.session)
    /\ procs' = Kill(procs, t)
    /\ UNCHANGED <<side, allocated, serviceMap, clock, sessionCounter, fd,
                   nConns, misrouted, enqueued, taken, state, inData,
                   inDataClosed, outData, outDataClosed, cCloseClosed,
                   connClosed, wire, peerClosed, nSent, written, events,
                   crashed, releaseCalls, closeSignals, pumpsAtRelease,
                   dropped, isOpen, clientVars>>

\* Server.Connect of the modelled session while another goroutine is inside
\* the map assignment: the runtime may end the process ("fatal error:
\* concurrent map writes").
handleNewConn_Connect_race(t) ==
    /\ ~crashed
    /\ t.kind = "handleNewConn" /\ t.pc = "connect"
    /\ MapWriting
    /\ events' = Raise("Connect", 0)
    /\ crashed' = TRUE
    /\ UNCHANGED <<side, allocated, serviceMap, clock, tableVars, state,
                   inData, inDataClosed, outData, outDataClosed, cCloseClosed,
                   connClosed, wire, peerClosed, nSent, written, procs,
                   releaseCalls, closeSignals, pumpsAtRelease, dropped, isOpen,
                   clientVars>>

\* this.handle.Connect(s.fd, s); go this.processInData(s).  A handler that
\* panics is recovered by the deferred function of handleNewConn.
handleNewConn_Connect(t, panics) ==
    /\ ~crashed
    /\ t.kind = "handleNewConn" /\ t.pc = "connect"
    /\ events' = Raise("Connect", 0)
    /\ sessions' = IF panics THEN sessions ELSE Server_Connect(sessions, fd, Self)
    /\ procs' = IF panics
                THEN Move(procs, t, [t EXCEPT !.pc = "recover"])
                ELSE Move(procs, t, Proc("processInData", "loop", NoFrame))
    /\ UNCHANGED <<side, allocated, serviceMap, clock, sessionCounter, fd,
                   nConns, misrouted, enqueued, taken, state, inData,
                   inDataClosed, outData, outDataClosed, cCloseClosed,
                   connClosed, wire, peerClosed, nSent, written, crashed,
                   releaseCalls, closeSignals, pumpsAtRelease, dropped, isOpen,
                   clientVars>>

\* defer: if err := recover(); err != nil { ...; s.Close() }
handleNewConn_recover(t) ==
    /\ ~crashed
    /\ t.kind = "handleNewConn" /\ t.pc = "recover"
    /\ Close
    /\ procs' = Kill(procs, t)
    /\ UNCHANGED <<side, allocated, serviceMap, clock, tableVars, inData,
                   inDataClosed, outData, outDataClosed, cCloseClosed,
                   connClosed, wire, peerClosed, nSent, written, events,
                   crashed, releaseCalls, closeSignals, pumpsAtRelease,
                   dropped, isOpen, clientVars>>

(***************************************************************************)
(* TcpServer.processInData: the dispatch task of a server session.         *)
(***************************************************************************)
\* for this.isOpen {
processInData_loop(t) ==
    /\ ~crashed
    /\ t.kind = "processInData" /\ t.pc = "loop"
    /\ procs' = IF isOpen
                THEN Move(procs, t, [t EXCEPT !.pc = "select"])
                ELSE Kill(procs, t)
    /\ UNCHANGED <<side, allocated, serviceMap, clock, tableVars, state,
                   inData, inDataClosed, outData, outDataClosed, cCloseClosed,
                   connClosed, wire, peerClosed, nSent, written, events,
                   crashed, releaseCalls, closeSignals, pumpsAtRelease,
                   dropped, isOpen, clientVars>>

\* (the server's switch answering a heartbeat in every state of the session)
ServerDispatch_AnyState(data) ==
    IF data.dType = HEARTBEAT
    THEN SetToBag({Proc("doWrite", "dw_check", Frame(HEARTBEAT_RET, data.head, ""))})
         (+) SetToBag({Proc("Heartbeat", "run", data)})
    ELSE IF data.dType = DATA
    THEN SetToBag({Proc("Message", "run", data)})
    ELSE EmptyBag

\* (a switch whose DATA case is the default case)
ServerDispatch_DefaultMessage(data) ==
    IF data.dType = HEARTBEAT /\ state = WORKING
    THEN SetToBag({Proc("doWrite", "dw_check", Frame(HEARTBEAT_RET, data.head, ""))})
         (+) SetToBag({Proc("Heartbeat", "run", data)})
    ELSE IF data.dType # HEARTBEAT
    THEN SetToBag({Proc("Message", "run", data)})
    ELSE EmptyBag

\* The goroutines the server's switch on data.dType starts.
ServerDispatch(data) ==
    IF data.dType = HEARTBEAT /\ state = WORKING
    THEN SetToBag({Proc("doWrite", "dw_check", Frame(HEARTBEAT_RET, data.head, ""))})
         (+) SetToBag({Proc("Heartbeat", "run", data)})
    ELSE IF data.dType = DATA
    THEN SetToBag({Proc("Message", "run", data)})
    ELSE EmptyBag

\* case data, ok := <-s.inData: if !ok { continue }; switch data.dType { ... }
TcpServer_recvData(t) ==
    /\ ~crashed
    /\ side = "server"
    /\ t.kind = "processInData" /\ t.pc = "select"
    /\ inData # <<>> \/ inDataClosed
    /\ IF inData # <<>>
       THEN /\ inData' = Tail(inData)
            /\ procs' = Move(procs, t, [t EXCEPT !.pc = "loop"])
                        (+) ServerDispatch(Head(inData))
       ELSE /\ inData' = inData
            /\ procs' = Move(procs, t, [t EXCEPT !.pc = "loop"])
    /\ taken' = IF inData # <<>>
                THEN Append(taken, [frame |-> Head(inData), state |-> state])
                ELSE taken
    /\ UNCHANGED <<side, allocated, serviceMap, clock, sessionCounter, fd,
                   sessions, nConns, misrouted, enqueued, state, inDataClosed,
                   outData, outDataClosed, cCloseClosed, connClosed, wire,
                   peerClosed, nSent, written, events, crashed, releaseCalls,
                   closeSignals, pumpsAtRelease, dropped, isOpen, clientVars>>

\* The read pumps blocked in `this.cClose <- true`.
Signalling == { r \in Live : r.kind = "handleRead" /\ r.pc = "signal" }

\* case <-s.cClose: the receive meets the send of a read pump (which then
\* returns through recover()), or finds the channel closed.
TcpServer_recvClose(t) ==
    /\ ~crashed
    /\ side = "server"
    /\ t.kind = "processInData" /\ t.pc = "select"
    /\ Signalling # {} \/ cCloseClosed
    /\ IF Signalling # {}
       THEN \E r \in Signalling :
              /\ procs' = Move(Move(procs, r, [r EXCEPT !.pc = "done"]),
                               t, [t EXCEPT !.pc = "close"])
              /\ closeSignals' = closeSignals + 1
       ELSE /\ procs' = Move(procs, t, [t EXCEPT !.pc = "close"])
            /\ closeSignals' = closeSignals
    /\ UNCHANGED <<side, allocated, serviceMap, clock, tableVars, state,
                   inData, inDataClosed, outData, outDataClosed, cCloseClosed,
                   connClosed, wire, peerClosed, nSent, written, events,
                   crashed, releaseCalls, pumpsAtRelease, dropped, isOpen,
                   clientVars>>

\* (TcpConn.Close with a Close handler that leaves callRet as it is)
TcpConn_Close_NoDrain(t) ==
    /\ ~crashed
    /\ t.pc = "close"
    /\ events' = Raise("Close", 0)
    /\ procs' = Move(procs, t, [t EXCEPT !.pc = "rel_in"])
    /\ UNCHANGED <<side, allocated, serviceMap, clock, tableVars, state,
                   inData, inDataClosed, outData, outDataClosed, cCloseClosed,
                   connClosed, wire, peerClosed, nSent, written, crashed,
                   releaseCalls, closeSignals, pumpsAtRelease, dropped, isOpen,
                   clientVars>>

\* TcpConn.Close: this.handle.Close(s.fd), and s.Release() follows.
\* Server.Close logs.  Client.Close deletes every entry of callRet and closes
\* its waiter under the write lock; closing a closed channel panics.
TcpConn_Close(t) ==
    /\ ~crashed
    /\ t.pc = "close"
    /\ events' = Raise("Close", 0)
    /\ IF side = "client" /\ Waiters \cap chClosed # {}
       THEN /\ crashed' = TRUE
            /\ UNCHANGED <<procs, callRet, chClosed>>
       ELSE /\ procs' = Move(procs, t, [t EXCEPT !.pc = "rel_in"])
            /\ callRet' = IF side = "client" THEN <<>> ELSE callRet
            /\ chClosed' = IF side = "client" THEN chClosed \cup Waiters ELSE chClosed
            /\ crashed' = crashed
    /\ UNCHANGED <<side, allocated, serviceMap, clock, tableVars, state,
                   inData, inDataClosed, outData, outDataClosed, cCloseClosed,
                   connClosed, wire, peerClosed, nSent, written, releaseCalls,
                   closeSignals, pumpsAtRelease, dropped, isOpen,
                   cHeartbeatClosed, ticker, nFired, msgCounter, results,
                   nCalls, apiCalls>>

(***************************************************************************)
(* The handler goroutines of the RPC server.                               *)
(***************************************************************************)
\* go this.handle.Heartbeat(s.fd, data.head): Server.Heartbeat logs.
Server_Heartbeat(t) ==
    /\ ~crashed
    /\ t.kind = "Heartbeat" /\ t.pc = "run"
    /\ events' = Raise("Heartbeat", t.f.head)
    /\ procs' = Kill(procs, t)
    /\ UNCHANGED <<side, allocated, serviceMap, clock, tableVars, state,
                   inData, inDataClosed, outData, outDataClosed, cCloseClosed,
                   connClosed, wire, peerClosed, nSent, written, crashed,
                   releaseCalls, closeSignals, pumpsAtRelease, dropped, isOpen,
                   clientVars>>

\* The envelopes a DATA frame can carry to the server, each named by the first
\* statement of Server.Message it does not pass: "bad" is not JSON ("" is the
\* empty body), "noargs" is [], "nostring" has a first element that is not a
\* string, "nodot" a method reference without '.', "nosvc" an unknown service,
\* "nomethod" an unknown method, "fewargs" fewer arguments than the method
\* declares, "badarg" an argument that does not convert; "call" names a
\* method that returns values and "call0" one that returns none.
Envelopes == {"bad", "noargs", "nostring", "nodot", "nosvc", "nomethod",
              "fewargs", "badarg", "call", "call0"}

\* What Server.Message does with an envelope, statement by statement:
\* json.Unmarshal fails: return; len(args) == 0: return; args[0].(string)
\* panics; dot < 0, sInfo == nil, mInfo == nil: return; args[i+1] out of
\* range panics; Convert panics; RunFunc returns nil for no return value.
MessageOutcome(body) ==
    IF body \in {"bad", ""} THEN "return"
    ELSE IF body = "noargs" THEN "return"
    ELSE IF body = "nostring" THEN "panic"
    ELSE IF body \in {"nodot", "nosvc", "nomethod"} THEN "return"
    ELSE IF body \in {"fewargs", "badarg"} THEN "panic"
    ELSE IF body = "call0" THEN "ack"
    ELSE "reply"

\* (Server.Message answering every envelope)
MessageOutcome_AlwaysReply(body) ==
    IF MessageOutcome(body) = "return" THEN "reply" ELSE MessageOutcome(body)

\* The outcome of Server.Message on the body of a frame.
Outcome(body) == MessageOutcome(body)

\* The frame Server.Message answers a request with: retBody, or nil when the
\* method returns nothing.
Reply(t) == Frame(DATA, t.f.head, IF Outcome(t.f.body) = "ack" THEN "" ELSE "ret")

\* go s.msgHandle(s.fd, data.head, data.body) with Server.Message: the session
\* is looked up in this.sessions by its id; an envelope that names a
\* registered method is run and answered with
\* this.tcpServer.Write(s, sessionID, retBody or nil), which is
\* s.doWrite(sID, DATA, buff) on the session found; a panic is recovered by
\* no one.
Server_Message(t) ==
    /\ ~crashed
    /\ side = "server"
    /\ t.kind = "Message" /\ t.pc = "run"
    /\ events' = RaiseMessage(t.f.head, t.f.body)
    /\ IF fd \notin DOMAIN sessions
       THEN /\ procs' = Kill(procs, t)
            /\ UNCHANGED <<crashed, misrouted>>
       ELSE IF Outcome(t.f.body) = "panic"
       THEN /\ crashed' = TRUE
            /\ UNCHANGED <<procs, misrouted>>
       ELSE IF Outcome(t.f.body) = "return"
       THEN /\ procs' = Kill(procs, t)
            /\ UNCHANGED <<crashed, misrouted>>
       ELSE IF sessions[fd] = Self
       THEN /\ procs' = Move(procs, t, [t EXCEPT !.pc = "dw_check", !.f = Reply(t)])
            /\ UNCHANGED <<crashed, misrouted>>
       ELSE /\ procs' = Kill(procs, t)
            /\ misrouted' = misrouted \cup {<<Reply(t), sessions[fd]>>}
            /\ crashed' = crashed
    /\ UNCHANGED <<side, allocated, serviceMap, clock, sessionCounter, fd,
                   sessions, nConns, enqueued, taken, state, inData,
                   inDataClosed, outData, outDataClosed, cCloseClosed,
                   connClosed, wire, peerClosed, nSent, written, releaseCalls,
                   closeSignals, pumpsAtRelease, dropped, isOpen, clientVars>>

(***************************************************************************)
(* The server: one accepted connection.                                    *)
(***************************************************************************)
InitSession ==
    /\ state = NEW_CONNECTION
    /\ inData = <<>> /\ inDataClosed = FALSE
    /\ outData = <<>> /\ outDataClosed = FALSE
    /\ cCloseClosed = FALSE
    /\ connClosed = FALSE
    /\ wire = <<>> /\ peerClosed = FALSE /\ nSent = 0
    /\ written = <<>>
    /\ events = {}
    /\ crashed = FALSE
    /\ releaseCalls = 0 /\ closeSignals = 0
    /\ pumpsAtRelease = {}
    /\ dropped = {}
    /\ isOpen = TRUE
    /\ cHeartbeatClosed = FALSE
    /\ ticker = [armed |-> TRUE, c |-> 0]
    /\ nFired = 0
    /\ msgCounter = 0
    /\ callRet = <<>>
    /\ chClosed = {}
    /\ results = {}
    /\ nCalls = 0
    /\ apiCalls = 0
    /\ sessions = <<>>
    /\ nConns = 0
    /\ misrouted = {}
    /\ enqueued = {}
    /\ taken = <<>>
    /\ allocated = <<>> /\ serviceMap = <<>>
    /\ clock = Clock0

\* No session has been created yet.
NoSession == sessionCounter = 0 /\ fd = 0

\* CreateSession has given the session its id.
Created == sessionCounter = 1 /\ fd = 1

Init ==
    /\ InitSession
    /\ NoSession
    /\ side = "server"
    /\ procs = SetToBag({Proc("handleNewConn", "newSession", NoFrame)})

handleRead(t) ==
    \/ handleRead_check(t)
    \/ Reader_read(t)
    \/ Reader_push(t)
    \/ handleRead_connClose(t)

handleWrite(t) ==
    \/ handleWrite_check(t)
    \/ handleWrite_recv(t)
    \/ handleWrite_write(t)
    \/ handleWrite_connClose(t)

Release(t) ==
    \/ Release_inData(t)
    \/ Release_outData(t)
    \/ Release_cClose(t)
    \/ Release_state(t)

doWrite(t) ==
    \/ doWrite_check(t)
    \/ doWrite_send(t)

\* One step of a pump, of Release or of doWrite, whoever runs it.
SessionNext ==
    \/ \E t \in Live : handleRead_check(t)
    \/ \E t \in Live : Reader_read(t)
    \/ \E t \in Live : Reader_push(t)
    \/ \E t \in Live : handleRead_connClose(t)
    \/ \E t \in Live : handleWrite_check(t)
    \/ \E t \in Live : handleWrite_recv(t)
    \/ \E t \in Live : handleWrite_write(t)
    \/ \E t \in Live : handleWrite_connClose(t)
    \/ \E t \in Live : Release_inData(t)
    \/ \E t \in Live : Release_outData(t)
    \/ \E t \in Live : Release_cClose(t)
    \/ \E t \in Live : Release_state(t)
    \/ \E t \in Live : doWrite_check(t)
    \/ \E t \in Live : doWrite_send(t)

ServerStep(t) ==
    \/ NewSession(t)
    \/ \E panics \in BOOLEAN : handleNewConn_Connect(t, panics)
    \/ handleNewConn_recover(t)
    \/ processInData_loop(t)
    \/ TcpServer_recvData(t)
    \/ TcpServer_recvClose(t)
    \/ TcpConn_Close(t)
    \/ Server_Heartbeat(t)
    \/ Server_Message(t)

ServerNext ==
    \/ \E t \in Live : NewSession(t)
    \/ \E t \in Live : handleNewConn_Connect(t, FALSE)
    \/ \E t \in Live : handleNewConn_Connect(t, TRUE)
    \/ \E t \in Live : handleNewConn_recover(t)
    \/ \E t \in Live : processInData_loop(t)
    \/ \E t \in Live : TcpServer_recvData(t)
    \/ \E t \in Live : TcpServer_recvClose(t)
    \/ \E t \in Live : TcpConn_Close(t)
    \/ \E t \in Live : Server_Heartbeat(t)
    \/ \E t \in Live : Server_Message(t)

Peer ==
    \/ \E f \in ClientFrames(nSent + 1) : PeerSend(f)
    \/ PeerClose

Next ==
    \/ SessionNext
    \/ ServerNext
    \/ Peer

Spec == Init /\ [][Next]_vars

\* The Go scheduler runs every goroutine that can take a step; the peer is
\* under no obligation to send or to close.
Fairness ==
    /\ WF_vars(\E t \in Live : handleRead(t))
    /\ WF_vars(\E t \in Live : handleWrite(t))
    /\ WF_vars(\E t \in Live : Release(t))
    /\ WF_vars(\E t \in Live : doWrite(t))
    /\ WF_vars(\E t \in Live : ServerStep(t))

FairSpec == Spec /\ Fairness

(***************************************************************************)
(* The RPC server: requests of every kind of envelope on one connection.   *)
(***************************************************************************)
\* s, ok := this.sessions[fd] while another goroutine is inside the map
\* assignment: a data race.  The read may find the entry (Server_Message),
\* miss it ("fd not found": return), or be ended by the runtime ("fatal error:
\* concurrent map read and map write").
Server_Message_race(t, fatal) ==
    /\ ~crashed
    /\ side = "server"
    /\ t.kind = "Message" /\ t.pc = "run"
    /\ MapWriting
    /\ events' = RaiseMessage(t.f.head, t.f.body)
    /\ crashed' = fatal
    /\ procs' = IF fatal THEN procs ELSE Kill(procs, t)
    /\ UNCHANGED <<side, allocated, serviceMap, clock, tableVars, state,
                   inData, inDataClosed, outData, outDataClosed, cCloseClosed,
                   connClosed, wire, peerClosed, nSent, written, releaseCalls,
                   closeSignals, pumpsAtRelease, dropped, isOpen, clientVars>>

\* The frames a client sends: a request of any kind of envelope, a heartbeat.
Requests(n) == { Frame(DATA, n, b) : b \in Envelopes } \cup {Frame(HEARTBEAT, n, "")}

ServePeer ==
    \/ \E f \in Requests(nSent + 1) : PeerSend(f)
    \/ PeerClose

NextServe ==
    \/ SessionNext
    \/ ServerNext
    \/ ServePeer
    \/ OtherConn
    \/ \E t \in Live : Server_Connect_done(t)
    \/ \E t \in Live : handleNewConn_Connect_race(t)
    \/ \E t \in Live : \E fatal \in BOOLEAN : Server_Message_race(t, fatal)

SpecServe == Init /\ [][NextServe]_vars

(***************************************************************************)
(* The session's methods called directly, in any order: Start, Close,      *)
(* Release and doWrite are called by no one but the application here.      *)
(***************************************************************************)
\* direct calls of the session's methods during one run
MaxApiCalls == 3

ApiIdle == \A t \in Live : t.kind # "api"

ApiStart ==
    /\ ~crashed /\ ApiIdle
    /\ apiCalls < MaxApiCalls
    /\ apiCalls' = apiCalls + 1
    /\ Start(procs)
    /\ UNCHANGED <<side, allocated, serviceMap, clock, tableVars, inData,
                   inDataClosed, outData, outDataClosed, cCloseClosed,
                   connClosed, wire, peerClosed, nSent, written, events,
                   crashed, releaseCalls, closeSignals, pumpsAtRelease,
                   dropped, isOpen, cHeartbeatClosed, ticker, nFired,
                   msgCounter, callRet, chClosed, results, nCalls>>

ApiClose ==
    /\ ~crashed /\ ApiIdle
    /\ apiCalls < MaxApiCalls
    /\ apiCalls' = apiCalls + 1
    /\ Close
    /\ UNCHANGED <<side, allocated, serviceMap, clock, tableVars, inData,
                   inDataClosed, outData, outDataClosed, cCloseClosed,
                   connClosed, wire, peerClosed, nSent, written, procs, events,
                   crashed, releaseCalls, closeSignals, pumpsAtRelease,
                   dropped, isOpen, cHeartbeatClosed, ticker, nFired,
                   msgCounter, callRet, chClosed, results, nCalls>>

\* The caller runs Release (or doWrite) from its first statement.
ApiCall(pc, f) ==
    /\ ~crashed /\ ApiIdle
    /\ apiCalls < MaxApiCalls
    /\ apiCalls' = apiCalls + 1
    /\ procs' = Spawn(procs, Proc("api", pc, f))
    /\ UNCHANGED <<side, allocated, serviceMap, clock, tableVars, state,
                   inData, inDataClosed, outData, outDataClosed, cCloseClosed,
                   connClosed, wire, peerClosed, nSent, written, events,
                   crashed, releaseCalls, closeSignals, pumpsAtRelease,
                   dropped, isOpen, cHeartbeatClosed, ticker, nFired,
                   msgCounter, callRet, chClosed, results, nCalls>>

ApiRelease == ApiCall("rel_in", NoFrame)
ApiWrite == ApiCall("dw_check", Frame(DATA, 1, "call"))

\* What arrives from the peer matters here only in that something arrives.
ApiPeer ==
    \/ PeerSend(Frame(DATA, nSent + 1, "call"))
    \/ PeerClose

InitApi ==
    /\ InitSession
    /\ Created
    /\ side = "api"
    /\ procs = EmptyBag

NextApi ==
    \/ ApiStart
    \/ ApiClose
    \/ ApiRelease
    \/ ApiWrite
    \/ SessionNext
    \/ \E t \in Live : handleRead_signalClosed(t)
    \/ ApiPeer

SpecApi == InitApi /\ [][NextApi]_vars

(***************************************************************************)
(* The server with a handler that keeps the session Connect gave it and    *)
(* calls the session's Close when it likes.                                *)
(***************************************************************************)
\* calls of Close by the handler during one run
MaxHandlerCalls == 1

Handler_Close ==
    /\ apiCalls < MaxHandlerCalls
    /\ ApiClose

NextHeld ==
    \/ SessionNext
    \/ ServerNext
    \/ Peer
    \/ Handler_Close

SpecHeld == Init /\ [][NextHeld]_vars

(***************************************************************************)
(* The client: TcpClient over one dialled connection.                      *)
(***************************************************************************)
chanVars == <<inData, inDataClosed, outData, outDataClosed, cCloseClosed,
              connClosed, wire, peerClosed, nSent, written>>
auditVars == <<releaseCalls, closeSignals, pumpsAtRelease, dropped, apiCalls>>
rpcVars == <<callRet, chClosed, results, nCalls>>

\* expiries of the heartbeat timer during one run
MaxBeats == 2

\* this.handle.Connect(s.fd, s); this.session = s; go this.processInData();
\* go this.heartbeat()
Dial_Connect(t) ==
    /\ ~crashed
    /\ t.kind = "Dial" /\ t.pc = "connect"
    /\ events' = Raise("Connect", 0)
    /\ procs' = Kill(procs, t) (+) SetToBag({Proc("processInData", "loop", NoFrame)})
                               (+) SetToBag({Proc("heartbeat", "loop", NoFrame)})
    /\ UNCHANGED <<side, allocated, serviceMap, clock, tableVars, state,
                   chanVars, crashed, auditVars, isOpen, cHeartbeatClosed,
                   ticker, nFired, msgCounter, rpcVars>>

\* (a dispatch that resets the timer in the cases of the switch only)
ClientDispatch_ResetHandled(data) ==
    IF data.dType = HEARTBEAT_RET
    THEN SetToBag({Proc("handleHeartbeatRet", "send", data)})
         (+) SetToBag({Proc("Reset", "run", NoFrame)})
    ELSE IF data.dType = DATA
    THEN SetToBag({Proc("Message", "run", data)})
         (+) SetToBag({Proc("Reset", "run", NoFrame)})
    ELSE EmptyBag

\* The goroutines the client's switch on data.dType starts, and the
\* `go this.ticker.Reset(5 * time.Second)` that follows the switch.
ClientDispatch(data) ==
    (IF data.dType = HEARTBEAT_RET
     THEN SetToBag({Proc("handleHeartbeatRet", "send", data)})
     ELSE IF data.dType = DATA
     THEN SetToBag({Proc("Message", "run", data)})
     ELSE EmptyBag)
    (+) SetToBag({Proc("Reset", "run", NoFrame)})

\* case data, ok := <-s.inData: if !ok { continue }; switch ...; go Reset
TcpClient_recvData(t) ==
    /\ ~crashed
    /\ side = "client"
    /\ t.kind = "processInData" /\ t.pc = "select"
    /\ inData # <<>> \/ inDataClosed
    /\ IF inData # <<>>
       THEN /\ inData' = Tail(inData)
            /\ procs' = Move(procs, t, [t EXCEPT !.pc = "loop"])
                        (+) ClientDispatch(Head(inData))
       ELSE /\ inData' = inData
            /\ procs' = Move(procs, t, [t EXCEPT !.pc = "loop"])
    /\ UNCHANGED <<side, allocated, serviceMap, clock, tableVars, state,
                   inDataClosed, outData, outDataClosed, cCloseClosed,
                   connClosed, wire, peerClosed, nSent, written, events,
                   crashed, auditVars, isOpen, cHeartbeatClosed, ticker,
                   nFired, msgCounter, rpcVars>>

\* case <-s.cClose: this.Close(); return
TcpClient_recvClose(t) ==
    /\ ~crashed
    /\ side = "client"
    /\ t.kind = "processInData" /\ t.pc = "select"
    /\ Signalling # {} \/ cCloseClosed
    /\ IF Signalling # {}
       THEN \E r \in Signalling :
              /\ procs' = Move(Move(procs, r, [r EXCEPT !.pc = "done"]),
                               t, [t EXCEPT !.pc = "tc_isOpen"])
              /\ closeSignals' = closeSignals + 1
       ELSE /\ procs' = Move(procs, t, [t EXCEPT !.pc = "tc_isOpen"])
            /\ closeSignals' = closeSignals
    /\ UNCHANGED <<side, allocated, serviceMap, clock, tableVars, state,
                   chanVars, events, crashed, releaseCalls, pumpsAtRelease,
                   dropped, apiCalls, isOpen, cHeartbeatClosed, ticker, nFired,
                   msgCounter, rpcVars>>

\* TcpClient.Close: this.isOpen = false
TcpClient_Close_isOpen(t) ==
    /\ ~crashed
    /\ t.pc = "tc_isOpen"
    /\ isOpen' = FALSE
    /\ procs' = Move(procs, t, [t EXCEPT !.pc = "tc_stop"])
    /\ UNCHANGED <<side, allocated, serviceMap, clock, tableVars, state,
                   chanVars, events, crashed, auditVars, cHeartbeatClosed,
                   ticker, nFired, msgCounter, rpcVars>>

\* this.ticker.Stop()
TcpClient_Close_Stop(t) ==
    /\ ~crashed
    /\ t.pc = "tc_stop"
    /\ ticker' = [ticker EXCEPT !.armed = FALSE]
    /\ procs' = Move(procs, t, [t EXCEPT !.pc = "tc_cHeartbeat"])
    /\ UNCHANGED <<side, allocated, serviceMap, clock, tableVars, state,
                   chanVars, events, crashed, auditVars, isOpen,
                   cHeartbeatClosed, nFired, msgCounter, rpcVars>>

\* close(this.cHeartbeat); this.TcpConn.Close(this.session) follows
TcpClient_Close_cHeartbeat(t) ==
    /\ ~crashed
    /\ t.pc = "tc_cHeartbeat"
    /\ IF cHeartbeatClosed
       THEN crashed' = TRUE /\ UNCHANGED <<cHeartbeatClosed, procs>>
       ELSE /\ cHeartbeatClosed' = TRUE
            /\ procs' = Move(procs, t, [t EXCEPT !.pc = "close"])
            /\ crashed' = crashed
    /\ UNCHANGED <<side, allocated, serviceMap, clock, tableVars, state,
                   chanVars, events, auditVars, isOpen, ticker, nFired,
                   msgCounter, rpcVars>>

(***************************************************************************)
(* TcpClient.heartbeat, its timer and handleHeartbeatRet.                  *)
(***************************************************************************)
\* The runtime timer expires: a value is put in ticker.C (capacity 1).
TimerFires ==
    /\ ~crashed
    /\ ticker.armed
    /\ nFired < MaxBeats
    /\ nFired' = nFired + 1
    /\ ticker' = [armed |-> FALSE, c |-> 1]
    /\ UNCHANGED <<side, allocated, serviceMap, clock, tableVars, state,
                   chanVars, procs, events, crashed, auditVars, isOpen,
                   cHeartbeatClosed, msgCounter, rpcVars>>

\* go this.ticker.Reset(5 * time.Second)
ticker_Reset(t) ==
    /\ ~crashed
    /\ t.kind = "Reset" /\ t.pc = "run"
    /\ ticker' = [ticker EXCEPT !.armed = TRUE]
    /\ clock' = [clock EXCEPT !.left = Interval]
    /\ procs' = Kill(procs, t)
    /\ UNCHANGED <<side, allocated, serviceMap, tableVars, state,
                   chanVars, events, crashed, auditVars, isOpen,
                   cHeartbeatClosed, nFired, msgCounter, rpcVars>>

\* for this.isOpen {
heartbeat_loop(t) ==
    /\ ~crashed
    /\ t.kind = "heartbeat" /\ t.pc = "loop"
    /\ procs' = IF isOpen
                THEN Move(procs, t, [t EXCEPT !.pc = "tick", !.f = NoFrame])
                ELSE Kill(procs, t)
    /\ UNCHANGED <<side, allocated, serviceMap, clock, tableVars, state,
                   chanVars, events, crashed, auditVars, isOpen,
                   cHeartbeatClosed, ticker, nFired, msgCounter, rpcVars>>

\* What the heartbeat task holds in an iteration of its loop: the sessionID
\* of the HEARTBEAT it sent and the value it received from cHeartbeat (0
\* before the receive, and from the closed channel).
Beat(sessionID, sid) ==
    [dType |-> HEARTBEAT, head |-> sessionID, body |-> "", sid |-> sid]

\* <-this.ticker.C; sessionID := this.msgCounter.GetNum();
\* go s.doWrite(sessionID, HEARTBEAT, []byte{})
heartbeat_tick(t) ==
    /\ ~crashed
    /\ t.kind = "heartbeat" /\ t.pc = "tick"
    /\ ticker.c = 1
    /\ ticker' = [ticker EXCEPT !.c = 0]
    /\ msgCounter' = GetNum(msgCounter)
    /\ procs' = Move(procs, t, [t EXCEPT !.pc = "select",
                                          !.f = Beat(GetNum(msgCounter), 0)])
                (+) SetToBag({Proc("doWrite", "dw_check",
                                   Frame(HEARTBEAT, GetNum(msgCounter), ""))})
    /\ UNCHANGED <<side, allocated, serviceMap, clock, tableVars, state,
                   chanVars, events, crashed, auditVars, isOpen,
                   cHeartbeatClosed, nFired, rpcVars>>

\* The goroutines blocked in `this.cHeartbeat <- sessionID`.
Acking == { h \in Live : h.kind = "handleHeartbeatRet" /\ h.pc = "send" }

\* (a receive that takes only the acknowledgment of the heartbeat waited for)
heartbeat_recvRet_Matching(t) ==
    /\ ~crashed
    /\ t.kind = "heartbeat" /\ t.pc = "select"
    /\ (\E h \in Acking : h.f.head = t.f.head) \/ cHeartbeatClosed
    /\ IF cHeartbeatClosed
       THEN procs' = Move(procs, t, [t EXCEPT !.pc = "loop"])
       ELSE \E h \in Acking :
              /\ h.f.head = t.f.head
              /\ procs' = Move(Kill(procs, h), t,
                               [t EXCEPT !.pc = "loop",
                                         !.f = Beat(t.f.head, h.f.head)])
    /\ UNCHANGED <<side, allocated, serviceMap, clock, tableVars, state,
                   chanVars, events, crashed, auditVars, isOpen,
                   cHeartbeatClosed, ticker, nFired, msgCounter, rpcVars>>

\* case <-this.cHeartbeat: the receive meets the send of a handleHeartbeatRet,
\* or finds the channel closed.
heartbeat_recvRet(t) ==
    /\ ~crashed
    /\ t.kind = "heartbeat" /\ t.pc = "select"
    /\ Acking # {} \/ cHeartbeatClosed
    /\ IF cHeartbeatClosed
       THEN procs' = Move(procs, t, [t EXCEPT !.pc = "loop"])
       ELSE \E h \in Acking :
              procs' = Move(Kill(procs, h), t,
                            [t EXCEPT !.pc = "loop",
                                      !.f = Beat(t.f.head, h.f.head)])
    /\ UNCHANGED <<side, allocated, serviceMap, clock, tableVars, state,
                   chanVars, events, crashed, auditVars, isOpen,
                   cHeartbeatClosed, ticker, nFired, msgCounter, rpcVars>>

\* (the timeout branch without its ticker.Reset)
heartbeat_timeout_NoReset(t) ==
    /\ ~crashed
    /\ t.kind = "heartbeat" /\ t.pc = "select"
    /\ procs' = Move(procs, t, [t EXCEPT !.pc = "loop"])
    /\ UNCHANGED <<side, allocated, serviceMap, clock, tableVars, state,
                   chanVars, events, crashed, auditVars, isOpen,
                   cHeartbeatClosed, ticker, nFired, msgCounter, rpcVars>>

\* case <-time.After(3 * time.Second): this.ticker.Reset(5 * time.Second)
heartbeat_timeout(t) ==
    /\ ~crashed
    /\ t.kind = "heartbeat" /\ t.pc = "select"
    /\ ticker' = [ticker EXCEPT !.armed = TRUE]
    /\ clock' = [clock EXCEPT !.left = Interval]
    /\ procs' = Move(procs, t, [t EXCEPT !.pc = "loop"])
    /\ UNCHANGED <<side, allocated, serviceMap, tableVars, state,
                   chanVars, events, crashed, auditVars, isOpen,
                   cHeartbeatClosed, nFired, msgCounter, rpcVars>>

\* handleHeartbeatRet: this.cHeartbeat <- sessionID on a closed channel panics.
handleHeartbeatRet_closed(t) ==
    /\ ~crashed
    /\ t.kind = "handleHeartbeatRet" /\ t.pc = "send"
    /\ cHeartbeatClosed
    /\ crashed' = TRUE
    /\ UNCHANGED <<side, allocated, serviceMap, clock, tableVars, state,
                   chanVars, procs, events, auditVars, isOpen,
                   cHeartbeatClosed, ticker, nFired, msgCounter, rpcVars>>

(***************************************************************************)
(* rpc.Client: Call and the Message handler.                               *)
(***************************************************************************)
\* concurrent Client.Call invocations on a connection that stays up
MaxCalls == 2
\* Client.Call invocations on a connection that is torn down
MaxClosingCalls == 1

\* What a Call returned: the caller, the id it registered, and the id and body
\* of the response it returns (head 0 and body "nil" when it returns nil).
Result(t, h, b) ==
    [caller |-> t.ch, id |-> t.f.head, head |-> h, body |-> b,
     nth |-> Cardinality(results)]

\* The application calls Client.Call(v) once Dial has returned, at most max
\* times; v encodes as JSON ("call") or does not ("nojson").
AppCall(v, max) ==
    /\ ~crashed
    /\ side = "client"
    /\ \A t \in Live : t.kind # "Dial"
    /\ nCalls < max
    /\ nCalls' = nCalls + 1
    /\ procs' = Spawn(procs, [Proc("Call", "getId", Frame(DATA, 0, v))
                                EXCEPT !.ch = nCalls + 1])
    /\ UNCHANGED <<side, allocated, serviceMap, clock, tableVars, state,
                   chanVars, events, crashed, auditVars, isOpen,
                   cHeartbeatClosed, ticker, nFired, msgCounter, callRet,
                   chClosed, results>>

\* sessionID := this.tcpClient.GetSessionID(); waitRet := make(chan ...);
\* body, err := json.Marshal(v); if err != nil { return nil }
Call_getId(t) ==
    /\ ~crashed
    /\ t.kind = "Call" /\ t.pc = "getId"
    /\ msgCounter' = GetNum(msgCounter)
    /\ IF t.f.body = "nojson"
       THEN /\ procs' = Kill(procs, t)
            /\ results' = results \cup
                  {Result([t EXCEPT !.f.head = GetNum(msgCounter)], 0, "nil")}
       ELSE /\ procs' = Move(procs, t, [t EXCEPT !.pc = "register",
                                                 !.f.head = GetNum(msgCounter)])
            /\ results' = results
    /\ UNCHANGED <<side, allocated, serviceMap, clock, tableVars, state,
                   chanVars, events, crashed, auditVars, isOpen,
                   cHeartbeatClosed, ticker, nFired, callRet, chClosed,
                   nCalls>>

\* (a Call that goes on to send without having registered its waiter)
Call_register_Skipped(t) ==
    /\ ~crashed
    /\ t.kind = "Call" /\ t.pc = "register"
    /\ procs' = Move(procs, t, [t EXCEPT !.pc = "dw_check"])
    /\ UNCHANGED <<side, allocated, serviceMap, clock, tableVars, state,
                   chanVars, events, crashed, auditVars, isOpen,
                   cHeartbeatClosed, ticker, nFired, msgCounter, callRet,
                   chClosed, results, nCalls>>

\* this.callRet[sessionID] = waitRet under the write lock;
\* this.tcpClient.Write(this.session, sessionID, body) follows.
Call_register(t) ==
    /\ ~crashed
    /\ t.kind = "Call" /\ t.pc = "register"
    /\ callRet' = [id \in DOMAIN callRet \cup {t.f.head} |->
                      IF id = t.f.head THEN t.ch ELSE callRet[id]]
    /\ procs' = Move(procs, t, [t EXCEPT !.pc = "dw_check"])
    /\ UNCHANGED <<side, allocated, serviceMap, clock, tableVars, state,
                   chanVars, events, crashed, auditVars, isOpen,
                   cHeartbeatClosed, ticker, nFired, msgCounter, chClosed,
                   results, nCalls>>

\* The Message handlers blocked in `waitRet <- args` on the channel w.
Answering(w) == { m \in Live : m.kind = "Message" /\ m.pc = "send" /\ m.ch = w }

\* case ret, ok := <-waitRet: the receive meets the send of a Message handler
\* (return ret), or finds the channel closed (return nil).
Call_recv(t) ==
    /\ ~crashed
    /\ t.kind = "Call" /\ t.pc = "wait"
    /\ Answering(t.ch) # {} \/ t.ch \in chClosed
    /\ IF t.ch \in chClosed
       THEN /\ procs' = Kill(procs, t)
            /\ results' = results \cup {Result(t, 0, "nil")}
       ELSE \E m \in Answering(t.ch) :
              /\ procs' = Move(Kill(procs, t), m, [m EXCEPT !.pc = "delete"])
              /\ results' = results \cup {Result(t, m.f.head, m.f.body)}
    /\ UNCHANGED <<side, allocated, serviceMap, clock, tableVars, state,
                   chanVars, events, crashed, auditVars, isOpen,
                   cHeartbeatClosed, ticker, nFired, msgCounter, callRet,
                   chClosed, nCalls>>

\* (a timeout that removes the entry of the Call from callRet)
Call_timeout_Deleting(t) ==
    /\ ~crashed
    /\ t.kind = "Call" /\ t.pc = "wait"
    /\ procs' = Kill(procs, t)
    /\ results' = results \cup {Result(t, 0, "nil")}
    /\ callRet' = [id \in DOMAIN callRet \ {t.f.head} |-> callRet[id]]
    /\ UNCHANGED <<side, allocated, serviceMap, clock, tableVars, state,
                   chanVars, events, crashed, auditVars, isOpen,
                   cHeartbeatClosed, ticker, nFired, msgCounter, chClosed,
                   nCalls>>

\* case <-time.After(3 * time.Second): return nil
Call_timeout(t) ==
    /\ ~crashed
    /\ t.kind = "Call" /\ t.pc = "wait"
    /\ procs' = Kill(procs, t)
    /\ results' = results \cup {Result(t, 0, "nil")}
    /\ UNCHANGED <<side, allocated, serviceMap, clock, tableVars, state,
                   chanVars, events, crashed, auditVars, isOpen,
                   cHeartbeatClosed, ticker, nFired, msgCounter, callRet,
                   chClosed, nCalls>>

\* json.Unmarshal(body, &args) into a []interface{}: a JSON array decodes,
\* an empty or malformed body is an error.
Unmarshals(body) == body = "ret"

\* A lookup that takes whichever waiter is registered.
LookupKey_Any(sessionID) ==
    IF DOMAIN callRet = {} THEN sessionID ELSE CHOOSE id \in DOMAIN callRet : TRUE

\* The key Client.Message looks up in callRet.
LookupKey(sessionID) == sessionID

\* Client.Message: waitRet, ok := this.callRet[sessionID]; if !ok { return };
\* err := json.Unmarshal(body, &args); if err != nil { return }
Client_Message(t) ==
    /\ ~crashed
    /\ side = "client"
    /\ t.kind = "Message" /\ t.pc = "run"
    /\ procs' = IF LookupKey(t.f.head) \in DOMAIN callRet /\ Unmarshals(t.f.body)
                THEN Move(procs, t, [t EXCEPT !.pc = "send",
                                              !.ch = callRet[LookupKey(t.f.head)]])
                ELSE Kill(procs, t)
    /\ UNCHANGED <<side, allocated, serviceMap, clock, tableVars, state,
                   chanVars, events, crashed, auditVars, isOpen,
                   cHeartbeatClosed, ticker, nFired, msgCounter, rpcVars>>

\* waitRet <- args on a closed channel panics.
Client_Message_sendClosed(t) ==
    /\ ~crashed
    /\ t.kind = "Message" /\ t.pc = "send"
    /\ t.ch \in chClosed
    /\ crashed' = TRUE
    /\ UNCHANGED <<side, allocated, serviceMap, clock, tableVars, state,
                   chanVars, procs, events, auditVars, isOpen,
                   cHeartbeatClosed, ticker, nFired, msgCounter, rpcVars>>

\* delete(this.callRet, sessionID) under the write lock
Client_Message_delete(t) ==
    /\ ~crashed
    /\ t.kind = "Message" /\ t.pc = "delete"
    /\ callRet' = [id \in DOMAIN callRet \ {t.f.head} |-> callRet[id]]
    /\ procs' = Move(procs, t, [t EXCEPT !.pc = "closeCh"])
    /\ UNCHANGED <<side, allocated, serviceMap, clock, tableVars, state,
                   chanVars, events, crashed, auditVars, isOpen,
                   cHeartbeatClosed, ticker, nFired, msgCounter, chClosed,
                   results, nCalls>>

\* close(waitRet): closing a closed channel panics.
Client_Message_close(t) ==
    /\ ~crashed
    /\ t.kind = "Message" /\ t.pc = "closeCh"
    /\ IF t.ch \in chClosed
       THEN crashed' = TRUE /\ UNCHANGED <<chClosed, procs>>
       ELSE /\ chClosed' = chClosed \cup {t.ch}
            /\ procs' = Kill(procs, t)
            /\ crashed' = crashed
    /\ UNCHANGED <<side, allocated, serviceMap, clock, tableVars, state,
                   chanVars, events, auditVars, isOpen, cHeartbeatClosed,
                   ticker, nFired, msgCounter, callRet, results, nCalls>>

(***************************************************************************)
(* The client's specification.                                             *)
(***************************************************************************)
InitClient ==
    /\ InitSession
    /\ NoSession
    /\ side = "client"
    /\ procs = SetToBag({Proc("Dial", "newSession", NoFrame)})

\* Dial, the dispatch task and the teardown it runs.
DialNext ==
    \/ \E t \in Live : NewSession(t)
    \/ \E t \in Live : Dial_Connect(t)
    \/ \E t \in Live : processInData_loop(t)
    \/ \E t \in Live : TcpClient_recvData(t)
    \/ \E t \in Live : TcpClient_recvClose(t)
    \/ \E t \in Live : TcpClient_Close_isOpen(t)
    \/ \E t \in Live : TcpClient_Close_Stop(t)
    \/ \E t \in Live : TcpClient_Close_cHeartbeat(t)
    \/ \E t \in Live : TcpConn_Close(t)
    \/ \E t \in Live : ticker_Reset(t)
    \/ \E t \in Live : heartbeat_loop(t)

HeartbeatNext ==
    \/ TimerFires
    \/ \E t \in Live : heartbeat_tick(t)
    \/ \E t \in Live : heartbeat_recvRet(t)
    \/ \E t \in Live : heartbeat_timeout(t)
    \/ \E t \in Live : handleHeartbeatRet_closed(t)

CallNext ==
    \/ \E t \in Live : Call_getId(t)
    \/ \E t \in Live : Call_register(t)
    \/ \E t \in Live : Call_recv(t)
    \/ \E t \in Live : Call_timeout(t)
    \/ \E t \in Live : Client_Message(t)
    \/ \E t \in Live : Client_Message_sendClosed(t)
    \/ \E t \in Live : Client_Message_delete(t)
    \/ \E t \in Live : Client_Message_close(t)

\* The responses the server sends: a well-formed or an empty body, for an id
\* the client may have issued.
Responses(n) == { Frame(DATA, h, b) : h \in 1..n, b \in {"ret", ""} }

\* The RPC client through the teardown of its connection, with its heartbeat
\* timer never expiring.
NextRpc ==
    \/ SessionNext
    \/ DialNext
    \/ \E v \in {"call", "nojson"} : AppCall(v, MaxClosingCalls)
    \/ CallNext
    \/ \E f \in Responses(MaxClosingCalls) : PeerSend(f)
    \/ PeerClose

SpecRpc == InitClient /\ [][NextRpc]_vars

\* Concurrent calls on a connection that stays up: the server answers and
\* neither closes the connection nor lets a read fail.
NextCalls ==
    \/ \E t \in Live : handleRead_check(t)
    \/ \E t \in Live : Reader_read(t)
    \/ \E t \in Live : Reader_push(t)
    \/ \E t \in Live : handleWrite_check(t)
    \/ \E t \in Live : handleWrite_recv(t)
    \/ \E t \in Live : handleWrite_write(t)
    \/ \E t \in Live : doWrite_check(t)
    \/ \E t \in Live : doWrite_send(t)
    \/ \E t \in Live : NewSession(t)
    \/ \E t \in Live : Dial_Connect(t)
    \/ \E t \in Live : processInData_loop(t)
    \/ \E t \in Live : TcpClient_recvData(t)
    \/ \E t \in Live : ticker_Reset(t)
    \/ \E t \in Live : heartbeat_loop(t)
    \/ AppCall("call", MaxCalls)
    \/ CallNext
    \/ \E f \in Responses(MaxCalls) : PeerSend(f)

SpecCalls == InitClient /\ [][NextCalls]_vars

\* What else the server sends: heartbeat acknowledgements and frames of the
\* types the client's dispatch ignores.
Acks(n) == { Frame(t, n, "") : t \in {PKG_TYPE, HEARTBEAT, HEARTBEAT_RET} }

HeartbeatPeer ==
    \/ \E f \in Acks(nSent + 1) : PeerSend(f)
    \/ PeerClose

\* The client with no Call in progress.
NextHeartbeat ==
    \/ SessionNext
    \/ DialNext
    \/ HeartbeatNext
    \/ HeartbeatPeer

SpecHeartbeat == InitClient /\ [][NextHeartbeat]_vars

heartbeat(t) ==
    \/ heartbeat_loop(t)
    \/ heartbeat_tick(t)
    \/ heartbeat_recvRet(t)
    \/ heartbeat_timeout(t)

\* The client with a server that sends nothing but acknowledgments, late or
\* never, and may close the connection.
BeatPeer ==
    \/ PeerSend(Frame(HEARTBEAT_RET, nSent + 1, ""))
    \/ PeerClose

NextBeats ==
    \/ SessionNext
    \/ DialNext
    \/ HeartbeatNext
    \/ BeatPeer

SpecBeats == InitClient /\ [][NextBeats]_vars

\* The heartbeat task runs when it can (its wait for an acknowledgment ends
\* after 3 seconds at the latest), and a timer that is armed expires.
FairBeats ==
    /\ SpecBeats
    /\ WF_vars(\E t \in Live : heartbeat(t))
    /\ WF_vars(TimerFires)

(***************************************************************************)
(* The session state machine.                                              *)
(***************************************************************************)
\* C1: whatever the order and number of Start(), Close() and Release() calls,
\* the session state never moves to an earlier state of the order
\* NEW < WORKING < CLOSING < CLOSED.
C1_StateNeverMovesBack == [][state' >= state]_vars

\* C2: every change of the session state is one of NEW -> WORKING,
\* WORKING -> CLOSING, CLOSING -> CLOSED: no state is skipped and CLOSED is
\* entered from CLOSING only.
C2_OnlyAdjacentSteps ==
    [][state' # state =>
         <<state, state'>> \in {<<NEW_CONNECTION, WORKING>>, <<WORKING, CLOSING>>,
                                <<CLOSING, CLOSED>>}]_vars


\* C3: a doWrite that finds the session state other than WORKING is dropped:
\* the step enqueues nothing on outData, writes nothing to the connection,
\* leaves the state as it is and leaves no goroutine about to send.
C3_SendDroppedUnlessWorking ==
    [][\A t \in Live :
         (t.pc = "dw_check" /\ state # WORKING
            /\ CopiesIn(t, procs') < CopiesIn(t, procs))
         => /\ outData' = outData
            /\ written' = written
            /\ state' = state
            /\ \A u \in BagToSet(procs') :
                 u.pc = "dw_send" => CopiesIn(u, procs') <= CopiesIn(u, procs)]_vars

\* doWrite has refused a send in two of the states NEW, CLOSING and CLOSED.
C3_Witness ==
    Cardinality({ d[2] : d \in dropped }) >= 2

C5_PumpsStoppedAtRelease == releaseCalls > 0 => pumpsAtRelease = {}

\* C6: once Close() has set a WORKING session to CLOSING, both pumps
\* eventually return, also when the peer sends nothing more and nothing more
\* is enqueued for sending.
C6_PumpsExitAfterClose == [](state = CLOSING => <>(RunningPumps = {}))

\* The read pump has left its loop on an error of Reader.
ReadFailed == \E r \in Live : r.kind = "handleRead" /\ r.f = ReadError

\* C7: once the read pump has hit a transport error or end-of-stream, the
\* session is driven to its end: the connection is closed, the Close event
\* raised, both pumps have returned and the state is CLOSED.
C7_ReadErrorTerminates ==
    ReadFailed ~> (/\ connClosed
                   /\ Raised("Close") # {}
                   /\ RunningPumps = {}
                   /\ state = CLOSED)

\* The read pump is still in its loop.
Decoding == \E r \in Live : r.kind = "handleRead" /\ r.pc \in {"check", "read", "push"}

\* C8: the read pump closes the connection and then signals cClose, once per
\* session: the signal is never given twice, never before the connection is
\* closed and never while the read pump is still decoding; a read pump that
\* has returned has given it.
C8_CloseSignalledOnce ==
    /\ closeSignals <= 1
    /\ closeSignals = 1 => connClosed /\ ~Decoding
    /\ \A r \in Live : r.kind = "handleRead" /\ r.pc = "done"
                         => closeSignals = 1 /\ connClosed

\* The read pump has failed, signalled and returned.
C8_Witness == closeSignals = 1 /\ ReadFailed /\ ~Decoding

(***************************************************************************)
(* RPC calls.                                                              *)
(***************************************************************************)
\* The results of the calls that returned a response.
Answered == { r \in results : r.body # "nil" }

\* C9: a response frame carrying id c is delivered to the caller that
\* registered c and to no other caller, and each caller receives at most one
\* response.
C9_ResponseToItsCaller ==
    /\ \A r \in Answered : r.head = r.id
    /\ \A r1, r2 \in Answered : r1.head = r2.head => r1.caller = r2.caller
    /\ \A r1, r2 \in Answered : r1.caller = r2.caller => r1 = r2

\* Two concurrent callers have each returned a response.
C9_Witness ==
    \E r1, r2 \in Answered : r1.caller # r2.caller

\* C10: a Call is never ended by a panic at its enqueue on the outbound queue
\* (what "a Call never blocks indefinitely and eventually returns" requires of
\* the enqueue step of the Call).
C10_CallEnqueueNeverPanics ==
    [][\A t \in Live : (t.kind = "Call" /\ doWrite_send(t)) => ~crashed']_vars

\* C11: the empty-body acknowledgment of a call to a method without return
\* values releases the pending call: the handler of an empty-body DATA frame
\* whose id is registered in callRet goes on to hand the result to the waiter
\* (and from there to delete the entry).
C11_AckReleasesCall ==
    [][\A t \in Live :
         (/\ t.kind = "Message" /\ t.pc = "run"
          /\ t.f.body = "" /\ t.f.head \in DOMAIN callRet
          /\ Client_Message(t))
         => \E u \in BagToSet(procs') :
              u.kind = "Message" /\ u.pc = "send" /\ u.f = t.f]_vars

\* C12: a response whose id has an entry in callRet gets the entry removed and
\* its handler finished, also when the Call has timed out before: a handler
\* about to hand the result to the waiter always has the Call there to
\* receive it (nobody else ever receives from that channel).
C12_ResponseHandlerHasReceiver ==
    \A m \in Live :
        m.kind = "Message" /\ m.pc = "send"
        => \E c \in Live : c.kind = "Call" /\ c.ch = m.ch

C14_CloseFailsWaitingCalls ==
    /\ [](\A t \in Live :
            t.kind = "Call" /\ t.pc = "wait" /\ t.ch \in chClosed /\ ~crashed
            => ENABLED Call_recv(t))
    /\ [][/\ (side = "client" /\ \E t \in Live : TcpConn_Close(t))
             => callRet' = <<>> /\ Waiters \subseteq chClosed'
          /\ \A t \in Live :
               (t.kind = "Call" /\ t.pc = "wait" /\ t.ch \in chClosed
                /\ CopiesIn(t, procs') < CopiesIn(t, procs))
               => \A r \in results' \ results : r.body = "nil"]_vars

\* The Close handler has drained the table while a Call was waiting.
C14_Witness ==
    /\ callRet = <<>>
    /\ \E t \in Live : t.kind = "Call" /\ t.pc = "wait" /\ t.ch \in chClosed

(***************************************************************************)
(* The RPC server's handling of envelopes.                                 *)
(***************************************************************************)
\* The Message handler t of the server leaves with this step, starting no
\* send and changing nothing of the session.
Dropped(t) ==
    /\ procs' = Kill(procs, t)
    /\ ~crashed'
    /\ UNCHANGED <<state, outData, outDataClosed, written, dropped, connClosed>>

\* The envelopes of C15 and of C16.
Unroutable == {"bad", "nodot", "nosvc", "nomethod"}
Unconvertible == {"nostring", "fewargs", "badarg"}

\* C15: a DATA frame whose envelope is malformed JSON, has no '.' in its
\* method reference, names an unknown service or an unknown method, makes the
\* server invoke no method and send no frame, and leaves the session state
\* unchanged.
C15_UnroutableDropped ==
    [][\A t \in Live :
         (t.kind = "Message" /\ t.f.body \in Unroutable /\ Server_Message(t))
         => Dropped(t)]_vars

\* The handler of such a frame has run and returned.
C15_Witness ==
    /\ ~crashed
    /\ \E x \in Raised("Message") :
         /\ x.body \in Unroutable
         /\ \A t \in Live : t.f.head # x.head
    /\ written = <<>> /\ outData = <<>>

\* C16: a DATA frame whose envelope has a first element that is not a string,
\* fewer arguments than the method declares or an argument that does not
\* convert, is dropped: no response, no failure leaving the handler, server
\* and session running as before.
C16_UnconvertibleDropped ==
    [][\A t \in Live :
         (t.kind = "Message" /\ t.f.body \in Unconvertible /\ Server_Message(t))
         => Dropped(t)]_vars

(***************************************************************************)
(* C17: every response the RPC server sends for a request is a DATA frame  *)
(* with the correlation id of that request, it is enqueued on the session  *)
(* the request arrived on and on no other, and no request is answered      *)
(* twice.                                                                  *)
(***************************************************************************)
\* The requests whose handler has run and that name a method to run.
Served == { x \in Raised("Message") : Outcome(x.body) \in {"reply", "ack"} }

\* The DATA frames put on the outbound queue of the session.
Responses_Sent == { e \in enqueued : e.frame.dType = DATA }

\* C17: no reply goes to another session; every frame a message handler
\* carries into doWrite and every DATA frame enqueued has the id of a request
\* that was served; no such frame is enqueued a second time.
C17_RepliesMatchRequests ==
    /\ misrouted = {}
    /\ \A t \in Live : t.kind = "Message" /\ t.pc \in {"dw_check", "dw_send"} =>
          /\ t.f.dType = DATA
          /\ \E x \in Served : x.head = t.f.head
          /\ CopiesIn(t, procs) = 1
    /\ \A e \in Responses_Sent :
          /\ e.nth = 0
          /\ \E x \in Served : x.head = e.frame.head

\* Two requests have been answered on the connection while the server holds
\* another session as well.
C17_Witness ==
    /\ nConns > 0
    /\ \E i, j \in DOMAIN written :
          /\ i # j
          /\ written[i].dType = DATA /\ written[j].dType = DATA
          /\ written[i].head # written[j].head

(***************************************************************************)
(* C18: the server acknowledges a heartbeat only if it took it from the    *)
(* inbound queue while the session was WORKING, with the heartbeat's id    *)
(* and once; a heartbeat taken in another state gets no acknowledgment and *)
(* raises no Heartbeat event.                                              *)
(***************************************************************************)
\* The heartbeats the dispatch task took while the session was WORKING, and
\* those it took in another state.
Accepted ==
    { taken[i].frame.head : i \in { j \in DOMAIN taken :
        taken[j].frame.dType = HEARTBEAT /\ taken[j].state = WORKING } }
Ignored ==
    { taken[i].frame.head : i \in { j \in DOMAIN taken :
        taken[j].frame.dType = HEARTBEAT /\ taken[j].state # WORKING } }

\* The goroutines that carry an acknowledgment into doWrite, and the
\* acknowledgments put on the outbound queue.
Acknowledging == { t \in Live : t.kind = "doWrite" /\ t.f.dType = HEARTBEAT_RET }
Acknowledged == { e \in enqueued : e.frame.dType = HEARTBEAT_RET }

\* C18: every acknowledgment under way or enqueued has the id of an accepted
\* heartbeat and exists once; an ignored heartbeat has no acknowledgment
\* under way or enqueued, no Heartbeat goroutine and no Heartbeat event.
C18_AcksMatchHeartbeats ==
    /\ \A t \in Acknowledging : t.f.head \in Accepted /\ CopiesIn(t, procs) = 1
    /\ \A e \in Acknowledged : e.frame.head \in Accepted /\ e.nth = 0
    /\ \A t \in Acknowledging : \A e \in Acknowledged : t.f.head # e.frame.head
    /\ \A h \in Ignored :
          /\ \A t \in Acknowledging : t.f.head # h
          /\ \A e \in Acknowledged : e.frame.head # h
          /\ \A t \in Live : t.kind = "Heartbeat" => t.f.head # h
          /\ \A x \in Raised("Heartbeat") : x.head # h

\* One heartbeat has been acknowledged and a later one was taken after the
\* session had left WORKING.
C18_Witness ==
    /\ Ignored # {}
    /\ \E e \in Acknowledged : e.frame.head \in Accepted
    /\ \E x \in Raised("Heartbeat") : x.head \in Accepted

(***************************************************************************)
(* C19: a heartbeat the dispatch task takes from a WORKING session is      *)
(* eventually answered on the connection.                                  *)
(***************************************************************************)
\* The acknowledgment of heartbeat c has been written to the connection.
AckWritten(c) == \E i \in DOMAIN written : written[i] = Frame(HEARTBEAT_RET, c, "")

Pacing == \E t \in Live : t.kind = "heartbeat" /\ t.pc \in {"loop", "tick"}

\* The heartbeat task has taken the tick, allocated an id and started the
\* send of a HEARTBEAT, and waits for the acknowledgment.
Awaiting == \E t \in Live : t.kind = "heartbeat" /\ t.pc = "select"

\* The timer will expire, or has expired and its channel holds the tick.
Pending == (ticker.armed /\ nFired < MaxBeats) \/ ticker.c = 1

\* C20: the timeout branch of the heartbeat task leaves the session state,
\* the connection, the channels, the events and the open flag as they are,
\* restarts the timer and takes the task back to the head of its loop; and a
\* heartbeat task of a client whose timer is running goes on to allocate the
\* next id and send the next HEARTBEAT, unless the client is closed first.
C20_TimeoutOnlyRestartsTimer ==
    /\ [][\A t \in Live : heartbeat_timeout(t) =>
            /\ UNCHANGED <<state, chanVars, events, isOpen, cHeartbeatClosed,
                           msgCounter, crashed>>
            /\ ticker'.armed
            /\ Pacing']_vars
    /\ (Pacing /\ Pending /\ isOpen) ~> (Awaiting \/ ~isOpen)

\* A second heartbeat has been sent on the open connection after the first
\* went unanswered: nothing has arrived from the peer.
C20_Witness ==
    /\ state = WORKING /\ ~connClosed /\ isOpen
    /\ Raised("Close") = {}
    /\ nSent = 0
    /\ \E i, j \in DOMAIN written :
          /\ i < j
          /\ written[i].dType = HEARTBEAT /\ written[j].dType = HEARTBEAT

(***************************************************************************)
(* The wire format byte by byte: Session.pack and Session.Reader, on a     *)
(* session whose connection is a loopback (CreateSession takes any         *)
(* io.ReadWriteCloser): what the write pump writes, the read pump reads.   *)
(***************************************************************************)
\* uint8 and uint16
ByteWidth == 256
WordWidth == 65536
\* if length > 65535
MaxBodyLen == 65535
\* var b [5]byte
HeaderLen == 5

\* (pack producing no bytes at all for an oversized body)
pack_DroppingOversized(head, dType, body) ==
    IF Len(body) > MaxBodyLen
    THEN <<>>
    ELSE << Len(body) % ByteWidth, (Len(body) \div ByteWidth) % ByteWidth,
            dType, head % ByteWidth, (head \div ByteWidth) % ByteWidth >>
         \o body

\* Session.pack: length := len(body); an oversized body is replaced by the
\* empty one; uint8(length), uint8(length>>8), dType, uint8(head),
\* uint8(head>>8), then the body.
pack(head, dType, body) ==
    LET big == Len(body) > MaxBodyLen
        length == IF big THEN 0 ELSE Len(body)
    IN  << length % ByteWidth, (length \div ByteWidth) % ByteWidth, dType,
           head % ByteWidth, (head \div ByteWidth) % ByteWidth >>
        \o (IF big THEN <<>> ELSE body)

\* (Reader taking the length field high byte first)
Reader_pkgLen_BigEndian(b) == (b[1] * ByteWidth + b[2]) % WordWidth

\* Session.Reader: pkgLen := uint16(b[0]) + uint16(b[1])<<8
Reader_pkgLen(b) == (b[1] + b[2] * ByteWidth) % WordWidth

\* Session.Reader: pkg.dType = b[2]; pkg.head = uint16(b[3]) + uint16(b[4])<<8;
\* the body is the pkgLen bytes after the header (none for pkgLen = 0).
Reader_pkg(b) ==
    Frame(b[3], (b[4] + b[5] * ByteWidth) % WordWidth,
          SubSeq(b, HeaderLen + 1, HeaderLen + Reader_pkgLen(b)))

\* calls of doWrite by the caller during one run
MaxPacks == 2

\* The arguments of doWrite: correlation ids with a low byte, a high byte or
\* both, two kinds, and bodies that are empty, short, longer than one byte
\* counts, as long as allowed, and longer.
PackHeads == {0, 258, 65535}
PackTypes == {HEARTBEAT, DATA}
PackLens == {0, 1, 256, MaxBodyLen, MaxBodyLen + 1}
Body(n) == [i \in 1..n |-> (i + n) % ByteWidth]
PackInputs ==
    { [dType |-> k, head |-> h, len |-> n] :
        k \in PackTypes, h \in PackHeads, n \in PackLens }

\* The frame the caller hands to doWrite for an input.
BodyOf == [n \in PackLens |-> Body(n)]
Arg(x) == Frame(x.dType, x.head, BodyOf[x.len])

\* The goroutine that calls doWrite: what it has still to send, and what it
\* has sent.
Callers == { t \in Live : t.kind = "caller" }

loopVars == <<side, state, inDataClosed, outDataClosed, cCloseClosed,
              connClosed, peerClosed, nSent, written, events, crashed,
              releaseCalls, closeSignals, pumpsAtRelease, isOpen, clientVars,
              sessionCounter, fd, sessions, nConns, misrouted, allocated,
              serviceMap, clock>>

\* Session.doWrite, whole: the state check, pkg := this.pack(head, dType,
\* data), this.outData <- pkg.  It returns nothing to its caller.
Loop_doWrite(t) ==
    /\ ~crashed
    /\ t.kind = "caller" /\ t.pc = "dw_check"
    /\ t.f.todo # <<>>
    /\ state # WORKING \/ Len(outData) < OutDataCap
    /\ LET f == Arg(Head(t.f.todo))
           pkg == pack(f.head, f.dType, f.body)
       IN  /\ IF state # WORKING
              THEN /\ dropped' = dropped \cup {<<f, state>>}
                   /\ UNCHANGED <<outData, enqueued>>
              ELSE /\ outData' = Append(outData, pkg)
                   /\ enqueued' = Enqueue(pkg)
                   /\ dropped' = dropped
           /\ procs' = Move(procs, t,
                            [t EXCEPT !.f = [todo |-> Tail(t.f.todo),
                                             sent |-> Append(t.f.sent,
                                                             Head(t.f.todo))]])
    /\ UNCHANGED <<loopVars, wire, inData, taken>>

\* Session.handleWrite: pkg := <-this.outData; this.conn.Write(pkg)
Loop_handleWrite ==
    /\ ~crashed
    /\ state = WORKING
    /\ outData # <<>>
    /\ wire' = wire \o Head(outData)
    /\ outData' = Tail(outData)
    /\ UNCHANGED <<loopVars, inData, taken, procs, enqueued, dropped>>

\* Session.Reader, whole: io.ReadFull of the header, io.ReadFull of the body
\* (each waits until the bytes are there), this.inData <- pkg.
Loop_Reader ==
    /\ ~crashed
    /\ state = WORKING
    /\ Len(wire) >= HeaderLen
    /\ Len(wire) >= HeaderLen + Reader_pkgLen(wire)
    /\ Len(inData) < InDataCap
    /\ inData' = Append(inData, Reader_pkg(wire))
    /\ wire' = SubSeq(wire, HeaderLen + Reader_pkgLen(wire) + 1, Len(wire))
    /\ UNCHANGED <<loopVars, outData, taken, procs, enqueued, dropped>>

\* processInData: data := <-s.inData
Loop_processInData ==
    /\ ~crashed
    /\ inData # <<>>
    /\ taken' = Append(taken, [frame |-> Head(inData), state |-> state])
    /\ inData' = Tail(inData)
    /\ UNCHANGED <<loopVars, outData, wire, procs, enqueued, dropped>>

\* What the caller sends: one frame, or several in a row.
PackRuns == UNION { [1..n -> PackInputs] : n \in 1..MaxPacks }

InitLoop ==
    /\ side = "loop"
    /\ state = WORKING
    /\ inData = <<>> /\ inDataClosed = FALSE
    /\ outData = <<>> /\ outDataClosed = FALSE
    /\ cCloseClosed = FALSE /\ connClosed = FALSE
    /\ wire = <<>> /\ peerClosed = FALSE /\ nSent = 0
    /\ written = <<>> /\ events = {} /\ crashed = FALSE
    /\ releaseCalls = 0 /\ closeSignals = 0 /\ pumpsAtRelease = {}
    /\ dropped = {} /\ isOpen = TRUE
    /\ cHeartbeatClosed = FALSE
    /\ ticker = [armed |-> TRUE, c |-> 0]
    /\ nFired = 0 /\ msgCounter = 0
    /\ callRet = <<>> /\ chClosed = {} /\ results = {}
    /\ nCalls = 0 /\ apiCalls = 0
    /\ sessions = <<>> /\ nConns = 0 /\ misrouted = {}
    /\ enqueued = {} /\ taken = <<>> /\ allocated = <<>> /\ serviceMap = <<>>
    /\ clock = Clock0
    /\ Created
    /\ \E run \in PackRuns :
          procs = SetToBag({Proc("caller", "dw_check",
                                 [todo |-> run, sent |-> <<>>])})

NextLoop ==
    \/ \E t \in Live : Loop_doWrite(t)
    \/ Loop_handleWrite
    \/ Loop_Reader
    \/ Loop_processInData

SpecLoop == InitLoop /\ [][NextLoop]_vars

(***************************************************************************)
(* C21: what Reader decodes from the bytes pack produced is the frame that *)
(* was packed, for every body of at most 65535 bytes, and Reader takes     *)
(* exactly the header and the body off the stream.                         *)
(***************************************************************************)
\* The frame handed to doWrite that Reader is about to decode: the frames
\* arrive in the order they were sent.
Decoding_Next(t) == Arg(t.f.sent[Len(taken) + Len(inData) + 1])

\* C21: every step of Reader on the bytes of a frame whose body has at most
\* 65535 bytes pushes a frame with the id, the kind and the body that were
\* packed, and takes 5 + len(body) bytes off the stream.
C21_RoundTrip ==
    [][\A t \in Callers :
         (Loop_Reader /\ Len(Decoding_Next(t).body) <= MaxBodyLen) =>
            /\ inData' = Append(inData, Decoding_Next(t))
            /\ Len(wire) - Len(wire') = HeaderLen + Len(Decoding_Next(t).body)]_vars

\* A frame with a body of 256 bytes and the frame sent after it have both
\* been decoded and dispatched, and the stream is used up.
C21_Witness ==
    /\ Len(taken) = 2
    /\ Len(taken[1].frame.body) = 256
    /\ Len(taken[2].frame.body) = 1
    /\ \A t \in Callers :
          /\ Len(t.f.sent) = 2
          /\ taken[1].frame = Arg(t.f.sent[1])
          /\ taken[2].frame = Arg(t.f.sent[2])
    /\ wire = <<>>

MaxAllocs == 2

\* The callers of msgCounter.GetNum: TcpClient.heartbeat and two tasks in
\* TcpClient.WriteData.
Allocators == <<"heartbeat", "WriteData", "WriteData">>

\* The values a counter may hold when the tasks start: a fresh one, and one
\* that is about to wrap.
StartNums == {0, CounterWidth - 2, CounterWidth - 1}

\* Where a task is between this.Lock() and the deferred this.Unlock().
Locked == {"gn_inc", "gn_read", "gn_unlock"}

\* (a Lock that never blocks)
Counter_Lock_Free == TRUE

\* sync.Mutex.Lock returns once no other task holds the mutex.
Counter_Lock == \A u \in Live : u.pc \notin Locked

counterVars == <<side, state, inData, inDataClosed, outData, outDataClosed,
                 cCloseClosed, connClosed, wire, peerClosed, nSent, written,
                 events, crashed, releaseCalls, closeSignals, pumpsAtRelease,
                 dropped, isOpen, cHeartbeatClosed, ticker, nFired, callRet,
                 chClosed, results, nCalls, apiCalls, tableVars,
                 serviceMap, clock>>

\* this.Lock()
GetNum_Lock(t) ==
    /\ t.kind = "GetNum" /\ t.pc = "gn_lock"
    /\ Counter_Lock
    /\ procs' = Move(procs, t, [t EXCEPT !.pc = "gn_inc"])
    /\ UNCHANGED <<counterVars, msgCounter, allocated>>

\* this.Num++
GetNum_inc(t) ==
    /\ t.kind = "GetNum" /\ t.pc = "gn_inc"
    /\ msgCounter' = (msgCounter + 1) % CounterWidth
    /\ procs' = Move(procs, t, [t EXCEPT !.pc = "gn_read"])
    /\ UNCHANGED <<counterVars, allocated>>

\* num := this.Num
GetNum_read(t) ==
    /\ t.kind = "GetNum" /\ t.pc = "gn_read"
    /\ allocated' = Append(allocated, msgCounter)
    /\ procs' = Move(procs, t, [t EXCEPT !.pc = "gn_unlock",
                                         !.f.num = msgCounter])
    /\ UNCHANGED <<counterVars, msgCounter>>

\* return num, the deferred this.Unlock(); the task then comes back for its
\* next id.
GetNum_Unlock(t) ==
    /\ t.kind = "GetNum" /\ t.pc = "gn_unlock"
    /\ procs' = Move(procs, t,
                     [t EXCEPT !.pc = IF t.f.n + 1 < MaxAllocs
                                      THEN "gn_lock" ELSE "done",
                               !.f.n = t.f.n + 1,
                               !.f.got = Append(t.f.got, t.f.num)])
    /\ UNCHANGED <<counterVars, msgCounter, allocated>>

InitCounter ==
    /\ side = "counter"
    /\ state = WORKING
    /\ inData = <<>> /\ inDataClosed = FALSE
    /\ outData = <<>> /\ outDataClosed = FALSE
    /\ cCloseClosed = FALSE /\ connClosed = FALSE
    /\ wire = <<>> /\ peerClosed = FALSE /\ nSent = 0
    /\ written = <<>> /\ events = {} /\ crashed = FALSE
    /\ releaseCalls = 0 /\ closeSignals = 0 /\ pumpsAtRelease = {}
    /\ dropped = {} /\ isOpen = TRUE
    /\ cHeartbeatClosed = FALSE
    /\ ticker = [armed |-> TRUE, c |-> 0]
    /\ nFired = 0
    /\ callRet = <<>> /\ chClosed = {} /\ results = {}
    /\ nCalls = 0 /\ apiCalls = 0
    /\ sessions = <<>> /\ nConns = 0 /\ misrouted = {}
    /\ enqueued = {} /\ taken = <<>>
    /\ Created
    /\ msgCounter \in StartNums
    /\ allocated = <<>> /\ serviceMap = <<>>
    /\ clock = Clock0
    /\ procs = [ t \in { Proc("GetNum", "gn_lock",
                              [by |-> Allocators[i], n |-> 0, num |-> 0,
                               got |-> <<>>]) : i \in DOMAIN Allocators }
                 |-> Cardinality({ i \in DOMAIN Allocators :
                                     Allocators[i] = t.f.by }) ]

NextCounter ==
    \/ \E t \in Live : GetNum_Lock(t)
    \/ \E t \in Live : GetNum_inc(t)
    \/ \E t \in Live : GetNum_read(t)
    \/ \E t \in Live : GetNum_Unlock(t)

SpecCounter == InitCounter /\ [][NextCounter]_vars

\* C23: Id allocation is atomic under concurrency.  Whatever tasks call
\* GetNum on one counter, each value it hands out is the one handed out
\* before it plus one modulo 65536, so that no id is handed out twice within
\* fewer than 65536 allocations; and the value each task gets back is one of
\* those, its own.
C23_AllocationAtomic ==
    /\ \A i \in 2..Len(allocated) :
          allocated[i] = (allocated[i - 1] + 1) % CounterWidth
    /\ \A i, j \in DOMAIN allocated :
          (i < j /\ j - i < CounterWidth) => allocated[i] # allocated[j]
    /\ \A t \in Live : t.f.got # <<>> => CopiesIn(t, procs) = 1
    /\ \A t, u \in Live : \A i \in DOMAIN t.f.got : \A j \in DOMAIN u.f.got :
          t.f.got[i] = u.f.got[j] => (t = u /\ i = j)

\* Six allocations by the heartbeat task and two callers of WriteData, the
\* counter wrapping on the way.
C23_Witness ==
    /\ Len(allocated) = Len(Allocators) * MaxAllocs
    /\ \E i \in DOMAIN allocated :
          allocated[i] = CounterWidth - 1 /\ allocated[i + 1] = 0
    /\ \A t \in Live : t.pc = "done"
    /\ \E t, u \in Live :
          /\ t.f.by = "heartbeat" /\ u.f.by = "WriteData"
          /\ t.f.got[1] = 0 /\ u.f.got[1] = CounterWidth - 1

(***************************************************************************)
(* The order of the frames through the pumps of one session.               *)
(***************************************************************************)
\* The frames put on the outbound queue so far, in the order doWrite put
\* them there.
EnqueueOrder ==
    [i \in 1..Cardinality(enqueued) |->
        (CHOOSE e \in enqueued : e.at = i - 1).frame]

\* The frames the read pump has decoded and the dispatch task has not taken
\* yet, oldest first: the one on the inbound queue, then the one the pump
\* holds.
Decoded ==
    inData \o (IF \E t \in Live : t.kind = "handleRead" /\ t.pc = "push"
               THEN <<(CHOOSE t \in Live :
                          t.kind = "handleRead" /\ t.pc = "push").f>>
               ELSE <<>>)

\* C24: the pumps preserve order.  The i-th frame handed to the dispatch
\* task is the i-th frame of the connection (the peer's i-th frame carries
\* id i), the frames decoded and not yet taken follow in the same order, and
\* the frames written to the connection are, in order and one for one, the
\* first frames put on the outbound queue, whoever put them there.
C24_PumpsPreserveOrder ==
    /\ \A i \in DOMAIN taken : taken[i].frame.head = i
    /\ \A i \in DOMAIN Decoded : Decoded[i].head = Len(taken) + i
    /\ Len(written) <= Len(EnqueueOrder)
    /\ \A i \in DOMAIN written : written[i] = EnqueueOrder[i]

\* Two frames were taken in the order they came, and their two
\* acknowledgments, put on the queue by two concurrent senders in the other
\* order, were written in the order they were put there.
C24_Witness ==
    /\ Len(taken) = 2
    /\ Len(written) = 2
    /\ written[1].head = 2 /\ written[2].head = 1
    /\ written = EnqueueOrder

(***************************************************************************)
(* The dispatch task at the close signal.                                  *)
(***************************************************************************)
\* The dispatch tasks of the session.
Dispatchers == { t \in Live : t.kind = "processInData" }

\* Where a task is while it runs Session.Release.
Releasing == {"rel_in", "rel_out", "rel_cClose", "rel_state"}

MaxSends == 2

\* The application calls Client.Send(v) once Dial has returned; v encodes as
\* JSON ("call") or does not ("nojson").
AppSend(v) ==
    /\ ~crashed
    /\ side = "client"
    /\ \A t \in Live : t.kind # "Dial"
    /\ apiCalls < MaxSends
    /\ apiCalls' = apiCalls + 1
    /\ procs' = Spawn(procs, Proc("Send", "WriteData", Frame(DATA, 0, v)))
    /\ UNCHANGED <<side, allocated, serviceMap, clock, tableVars, state,
                   chanVars, events, crashed, releaseCalls, closeSignals,
                   pumpsAtRelease, dropped, isOpen, cHeartbeatClosed, ticker,
                   nFired, msgCounter, rpcVars>>

\* (a Send that registers a waiter for the id of its frame, as Call does)
Client_Send_Registering(t) ==
    /\ ~crashed
    /\ t.kind = "Send" /\ t.pc = "WriteData"
    /\ IF t.f.body = "nojson"
       THEN /\ procs' = Kill(procs, t)
            /\ UNCHANGED <<msgCounter, callRet>>
       ELSE /\ msgCounter' = GetNum(msgCounter)
            /\ callRet' = [id \in DOMAIN callRet \cup {GetNum(msgCounter)} |->
                              IF id = GetNum(msgCounter) THEN MaxCalls + 1
                              ELSE callRet[id]]
            /\ procs' = Move(procs, t, [t EXCEPT !.pc = "dw_check",
                                                 !.f.head = GetNum(msgCounter)])
    /\ UNCHANGED <<side, allocated, serviceMap, clock, tableVars, state,
                   chanVars, events, crashed, auditVars, isOpen,
                   cHeartbeatClosed, ticker, nFired, chClosed, results,
                   nCalls>>

\* body, err := json.Marshal(v); if err != nil { return };
\* this.tcpClient.WriteData(this.session, body), which takes
\* sessionID := this.msgCounter.GetNum() and calls s.doWrite(sessionID, DATA,
\* buff); Send returns when doWrite does.
Client_Send(t) ==
    /\ ~crashed
    /\ t.kind = "Send" /\ t.pc = "WriteData"
    /\ IF t.f.body = "nojson"
       THEN /\ procs' = Kill(procs, t)
            /\ msgCounter' = msgCounter
       ELSE /\ msgCounter' = GetNum(msgCounter)
            /\ procs' = Move(procs, t, [t EXCEPT !.pc = "dw_check",
                                                 !.f.head = GetNum(msgCounter)])
    /\ UNCHANGED <<side, allocated, serviceMap, clock, tableVars, state,
                   chanVars, events, crashed, auditVars, isOpen,
                   cHeartbeatClosed, ticker, nFired, rpcVars>>

\* The RPC client with one Call and the application's Sends, through the
\* teardown of the connection, with a server that sends nothing: the read
\* pump pushes no frame and the dispatch task takes none.
NextSend ==
    \/ \E t \in Live : handleRead_check(t)
    \/ \E t \in Live : Reader_read(t)
    \/ \E t \in Live : handleRead_connClose(t)
    \/ \E t \in Live : handleWrite_check(t)
    \/ \E t \in Live : handleWrite_recv(t)
    \/ \E t \in Live : handleWrite_write(t)
    \/ \E t \in Live : handleWrite_connClose(t)
    \/ \E t \in Live : Release_inData(t)
    \/ \E t \in Live : Release_outData(t)
    \/ \E t \in Live : Release_cClose(t)
    \/ \E t \in Live : Release_state(t)
    \/ \E t \in Live : doWrite_check(t)
    \/ \E t \in Live : doWrite_send(t)
    \/ \E t \in Live : NewSession(t)
    \/ \E t \in Live : Dial_Connect(t)
    \/ \E t \in Live : processInData_loop(t)
    \/ \E t \in Live : TcpClient_recvClose(t)
    \/ \E t \in Live : TcpClient_Close_isOpen(t)
    \/ \E t \in Live : TcpClient_Close_Stop(t)
    \/ \E t \in Live : TcpClient_Close_cHeartbeat(t)
    \/ \E t \in Live : TcpConn_Close(t)
    \/ \E t \in Live : heartbeat_loop(t)
    \/ AppCall("call", MaxClosingCalls)
    \/ \E t \in Live : Call_getId(t)
    \/ \E t \in Live : Call_register(t)
    \/ \E t \in Live : Call_recv(t)
    \/ \E t \in Live : Call_timeout(t)
    \/ \E v \in {"call", "nojson"} : AppSend(v)
    \/ \E t \in Live : Client_Send(t)
    \/ PeerClose

SpecSend == InitClient /\ [][NextSend]_vars

\* The tasks running Client.Send.
Senders == { t \in Live : t.kind = "Send" }

\* C26: Send is fire-and-forget.  No step of a Send changes the pending-call
\* table, closes a waiter or records a result; a Send is only ever about to
\* take its id or inside doWrite, never waiting for a response; its enqueue
\* step puts its one DATA frame, whose id has no waiter in the table, at the
\* end of the outbound queue and the Send is over with that step; and no more frames are
\* ever enqueued than Calls and Sends were made.
C26_SendFireAndForget ==
    /\ [](\A t \in Senders : t.pc \in {"WriteData", "dw_check", "dw_send"})
    /\ [](Cardinality(enqueued) <= nCalls + apiCalls)
    /\ [][\A t \in Senders :
            CopiesIn(t, procs') < CopiesIn(t, procs)
            => /\ callRet' = callRet /\ chClosed' = chClosed
               /\ results' = results
               /\ (t.pc = "dw_check" /\ state = WORKING)
                     => [t EXCEPT !.pc = "dw_send"] \in BagToSet(procs')
               /\ (t.pc = "dw_send" /\ ~crashed')
                     => /\ t.f.dType = DATA /\ t.f.head \notin DOMAIN callRet
                        /\ outData' = Append(outData, t.f)
                        /\ \A u \in BagToSet(procs') :
                              u.kind = "Send"
                                 => CopiesIn(u, procs') <= CopiesIn(u, procs)]_vars

\* Two Sends have put their frames on the queue and returned while a Call
\* waits for its response, its waiter the only entry of the table.
C26_Witness ==
    /\ apiCalls = 2 /\ Senders = {}
    /\ \E t \in Live : t.kind = "Call" /\ t.pc = "wait" /\ t.f.head = 2
    /\ DOMAIN callRet = {2}
    /\ { e.frame.head : e \in enqueued } = {1, 2, 3}
    /\ ~crashed

(***************************************************************************)
(* rpc.Server.Register.                                                    *)
(***************************************************************************)
MaxRegs == 3

\* The receivers the application registers: the Go type of each, the name of
\* that type once dereferenced, and the exported methods of the type with the
\* types of their inputs (the receiver first).  Calc, *Calc and the Calc of
\* another package have the same type name.
Receivers ==
    { [typ |-> "Calc", name |-> "Calc",
       methods |-> ("Add" :> <<"Calc", "int", "int">>)],
      [typ |-> "*Calc", name |-> "Calc",
       methods |-> ("Add" :> <<"*Calc", "int", "int">>)
                   @@ ("Reset" :> <<"*Calc">>)],
      [typ |-> "v2.Calc", name |-> "Calc",
       methods |-> ("Sub" :> <<"v2.Calc", "int", "int">>)],
      [typ |-> "Echo", name |-> "Echo",
       methods |-> ("Say" :> <<"Echo", "string">>)],
      [typ |-> "*Ping", name |-> "Ping",
       methods |-> ("Ping" :> <<"*Ping">>)] }

\* for m := 0; m < s.typ.NumMethod(); m++ { ... s.methods[mname] =
\* &methodInfo }: argNum := mtype.NumIn() - 1, and args holds In(1) to
\* In(argNum) when argNum > 0.
Service(rcvr) ==
    [typ |-> rcvr.typ,
     name |-> rcvr.name,
     methods |-> [m \in DOMAIN rcvr.methods |->
                    [method |-> <<rcvr.typ, m>>,
                     args |-> IF Len(rcvr.methods[m]) - 1 > 0
                              THEN Tail(rcvr.methods[m]) ELSE <<>>]]]

\* (a Register that keeps the service already registered under the name)
Server_Register_FirstWins(reg, rcvr) ==
    [n \in DOMAIN reg \cup {rcvr.name} |->
        IF n \in DOMAIN reg THEN reg[n] ELSE Service(rcvr)]

\* Server.Register: this.serviceMap[s.name] = s
Server_Register(reg, rcvr) ==
    [n \in DOMAIN reg \cup {rcvr.name} |->
        IF n = rcvr.name THEN Service(rcvr) ELSE reg[n]]

registryVars == <<side, state, inData, inDataClosed, outData, outDataClosed,
                  cCloseClosed, connClosed, wire, peerClosed, nSent, written,
                  events, crashed, releaseCalls, closeSignals, pumpsAtRelease,
                  dropped, isOpen, clientVars, tableVars, allocated,
                  clock>>

\* The application calls server.Register(rcvr), one receiver after another.
Register(t) ==
    /\ t.kind = "main" /\ t.pc = "Register"
    /\ t.f.todo # <<>>
    /\ serviceMap' = Server_Register(serviceMap, Head(t.f.todo))
    /\ procs' = Move(procs, t,
                     [t EXCEPT !.f.todo = Tail(t.f.todo),
                               !.f.done = Append(t.f.done, Head(t.f.todo))])
    /\ UNCHANGED registryVars

RegisterRuns == UNION { [1..n -> Receivers] : n \in 1..MaxRegs }

\* A server before Start, its registry empty.
InitRegistry ==
    /\ InitSession
    /\ NoSession
    /\ side = "registry"
    /\ \E run \in RegisterRuns :
          procs = SetToBag({Proc("main", "Register",
                                 [todo |-> run, done |-> <<>>])})

NextRegistry == \E t \in Live : Register(t)

SpecRegistry == InitRegistry /\ [][NextRegistry]_vars

\* The receivers registered so far, in order.
Registered == (CHOOSE t \in Live : t.kind = "main").f.done

\* The receiver registered last under the name n.
LastRegistered(n) ==
    Registered[CHOOSE i \in DOMAIN Registered :
                  /\ Registered[i].name = n
                  /\ \A j \in DOMAIN Registered :
                        Registered[j].name = n => j <= i]

\* C27: last registration wins.  After any sequence of Register calls the
\* registry has an entry for exactly the type names registered, and the entry
\* of each name is the method table of the receiver registered last with that
\* name: its methods, each with the types of its arguments; and a Register
\* call leaves the entries of all other names as they were.
C27_LastRegistrationWins ==
    /\ [](/\ DOMAIN serviceMap = { Registered[i].name : i \in DOMAIN Registered }
          /\ \A n \in DOMAIN serviceMap :
                /\ serviceMap[n].typ = LastRegistered(n).typ
                /\ DOMAIN serviceMap[n].methods
                      = DOMAIN LastRegistered(n).methods
                /\ \A m \in DOMAIN serviceMap[n].methods :
                      serviceMap[n].methods[m].args
                         = Tail(LastRegistered(n).methods[m]))
    /\ [][\A t \in Live :
            Register(t)
            => \A n \in DOMAIN serviceMap :
                  n # Head(t.f.todo).name => serviceMap'[n] = serviceMap[n]]_vars

\* Calc was registered, then Echo, then *Calc: Calc now has the methods of
\* *Calc and Echo is as it was registered.
C27_Witness ==
    /\ Len(Registered) = 3
    /\ Registered[1].typ = "Calc" /\ Registered[2].typ = "Echo"
    /\ Registered[3].typ = "*Calc"
    /\ DOMAIN serviceMap = {"Calc", "Echo"}
    /\ DOMAIN serviceMap["Calc"].methods = {"Add", "Reset"}
    /\ DOMAIN serviceMap["Echo"].methods = {"Say"}

(***************************************************************************)
(* The capacity of the queues of a session.                                *)
(***************************************************************************)
\* The read pump holds a decoded frame and is about to push it.
Pushing == { t \in Live : t.kind = "handleRead" /\ t.pc = "push" }

\* The tasks inside doWrite that hold a package and are about to enqueue it.
Enqueuing == { t \in Live : t.pc = "dw_send" }

\* C28: the inbound and the outbound queue each hold at most one frame.  A
\* frame is added to either queue only when that queue is empty, so a read
\* pump holding a frame while the inbound queue is full, and a sender holding
\* a package while the outbound queue is full, stay where they are until the
\* queue has been emptied.
C28_QueuesHoldOneFrame ==
    /\ [](Len(inData) <= 1 /\ Len(outData) <= 1)
    /\ [][/\ Len(inData') > Len(inData) => inData = <<>>
          /\ Len(outData') > Len(outData) => outData = <<>>
          /\ (inData # <<>> /\ inData' = inData /\ ~inDataClosed)
                => \A t \in Pushing : CopiesIn(t, procs') = CopiesIn(t, procs)
          /\ (outData # <<>> /\ outData' = outData /\ ~outDataClosed)
                => \A t \in Enqueuing :
                      CopiesIn(t, procs') = CopiesIn(t, procs)]_vars

\* Both queues are full, the read pump holds the next frame and a sender
\* holds the next package.
C28_Witness ==
    /\ Len(inData) = 1 /\ Pushing # {} /\ ~inDataClosed
    /\ Len(outData) = 1 /\ Enqueuing # {} /\ ~outDataClosed
    /\ ~crashed

(***************************************************************************)
(* What the dispatch task starts for the frame it takes.                   *)
(***************************************************************************)
\* The kinds of frame the switch of the dispatch task has no case for.
Unhandled ==
    IF side = "client" THEN {PKG_TYPE, HEARTBEAT} ELSE {PKG_TYPE, HEARTBEAT_RET}

\* The goroutines of kind k that the step adds.
Started(k) ==
    { u \in BagToSet(procs') :
        u.kind = k /\ CopiesIn(u, procs') > CopiesIn(u, procs) }

\* The DATA frames the server's dispatch task has taken.
DataTaken == { i \in DOMAIN taken : taken[i].frame.dType = DATA }

\* The Message handlers started and not yet run.
MessagesToRun == { u \in Live : u.kind = "Message" /\ u.pc = "run" }

MaxIdle == 6

\* Nothing the client can do without time passing: the pumps wait for bytes
\* and for packages, the dispatch task waits for a frame, the heartbeat task
\* waits for the timer or for an acknowledgment, and no goroutine started for
\* a frame, for a Reset or for a write is left to run.
Settled ==
    /\ wire = <<>> /\ inData = <<>> /\ outData = <<>>
    /\ \A t \in Live :
          /\ t.kind \notin {"Dial", "Reset", "Message", "doWrite"}
          /\ t.kind = "handleRead" => t.pc = "read"
          /\ t.kind = "handleWrite" => t.pc = "recv"
          /\ t.kind = "processInData" => t.pc = "select"
          /\ t.kind = "heartbeat"
                => \/ t.pc = "tick" /\ ticker.c = 0
                   \/ t.pc = "select" /\ Acking = {}

\* One second passes.  The timer, when armed, has a second less left
\* (`left`); the time since the last inbound frame (`idle`, measured from the
\* frames sent by `seen`) and the time the heartbeat task has waited for its
\* acknowledgment (`wait`, measured from the expiries by `fired`) grow.  An
\* armed timer with nothing left expires, and time.After(3 * time.Second)
\* ends the wait, before more time passes.
Tick ==
    /\ ~crashed
    /\ side = "client"
    /\ Settled
    /\ ticker.armed => clock.left > 0
    /\ Awaiting => clock.wait < AckTimeout
    /\ clock.idle < MaxIdle
    /\ clock' = [now   |-> clock.now + 1,
                 left  |-> IF ticker.armed THEN clock.left - 1 ELSE clock.left,
                 idle  |-> IF nSent > clock.seen THEN 1 ELSE clock.idle + 1,
                 seen  |-> nSent,
                 wait  |-> IF ~Awaiting THEN 0
                           ELSE IF nFired > clock.fired THEN 1
                           ELSE clock.wait + 1,
                 fired |-> nFired]
    /\ UNCHANGED <<side, allocated, serviceMap, tableVars, state, chanVars,
                   procs, events, crashed, auditVars, isOpen, cHeartbeatClosed,
                   ticker, nFired, msgCounter, rpcVars>>

\* The timer expires when its interval has run down.
TimedFires == clock.left = 0 /\ TimerFires

\* case <-time.After(3 * time.Second): after three seconds of waiting.
TimedTimeout(t) == clock.wait >= AckTimeout /\ heartbeat_timeout(t)

\* A server that sends frames of every kind, at any time.
TimedPeer ==
    \E f \in Acks(nSent + 1) \cup {Frame(DATA, nSent + 1, "ret")} : PeerSend(f)

\* The client on a connection that stays up, with time.
NextTimed ==
    \/ \E t \in Live : NewSession(t)
    \/ \E t \in Live : Dial_Connect(t)
    \/ \E t \in Live : handleRead_check(t)
    \/ \E t \in Live : Reader_read(t)
    \/ \E t \in Live : Reader_push(t)
    \/ \E t \in Live : handleWrite_check(t)
    \/ \E t \in Live : handleWrite_recv(t)
    \/ \E t \in Live : handleWrite_write(t)
    \/ \E t \in Live : doWrite_check(t)
    \/ \E t \in Live : doWrite_send(t)
    \/ \E t \in Live : processInData_loop(t)
    \/ \E t \in Live : TcpClient_recvData(t)
    \/ \E t \in Live : Client_Message(t)
    \/ \E t \in Live : ticker_Reset(t)
    \/ \E t \in Live : heartbeat_loop(t)
    \/ \E t \in Live : heartbeat_tick(t)
    \/ \E t \in Live : heartbeat_recvRet(t)
    \/ \E t \in Live : TimedTimeout(t)
    \/ TimedFires
    \/ TimedPeer
    \/ Tick

SpecTimed == InitClient /\ [][NextTimed]_vars

\* The HEARTBEAT frames the step hands to doWrite.
HeartbeatsStarted == { u \in Started("doWrite") : u.f.dType = HEARTBEAT }

\* C30: on the client, the dispatch step that takes a frame from the inbound
\* queue starts one Reset of the heartbeat timer whatever the kind of the
\* frame, and a Reset leaves the timer armed with the whole 5-second interval.
\* So the timer expires, and a HEARTBEAT is handed to the sender, only when 5
\* seconds have passed in which no inbound frame arrived.
C30_FramesResetHeartbeatTimer ==
    /\ [][\A t \in Dispatchers :
            (side = "client" /\ t.pc = "select" /\ inData # <<>>
               /\ CopiesIn(t, procs') < CopiesIn(t, procs))
            => /\ Started("Reset") = {Proc("Reset", "run", NoFrame)}
               /\ CopiesIn(Proc("Reset", "run", NoFrame), procs')
                     = CopiesIn(Proc("Reset", "run", NoFrame), procs) + 1]_vars
    /\ [][\A t \in Live :
            (t.kind = "Reset" /\ CopiesIn(t, procs') < CopiesIn(t, procs))
            => ticker'.armed /\ clock'.left = Interval]_vars
    /\ [][nFired' > nFired => clock.idle >= Interval]_vars
    /\ [][HeartbeatsStarted # {} => clock.idle >= Interval]_vars
    /\ [](\A e \in enqueued : e.frame.dType = HEARTBEAT => nFired > 0)

\* Eight seconds have passed, two frames of kinds the switch has no case for or
\* handles arrived less than five seconds apart and were taken, the timer has
\* its whole interval again, and it has never expired: no HEARTBEAT was sent.
C30_Witness ==
    /\ side = "client"
    /\ clock.now >= 8
    /\ nSent = 2 /\ Settled
    /\ ticker.armed /\ clock.left = Interval
    /\ nFired = 0
    /\ \A e \in enqueued : e.frame.dType # HEARTBEAT

(***************************************************************************)
(* The acknowledgments of the client's heartbeats.                         *)
(***************************************************************************)
\* The HEARTBEAT frames the server has read, in order.
HeartbeatsWritten == SelectSeq(written, LAMBDA w : w.dType = HEARTBEAT)

\* TcpServer.processInData answers a HEARTBEAT with a HEARTBEAT_RET of the
\* same id: the server's next acknowledgment, sent at any time after the
\* heartbeat has reached it.
AckPeer ==
    /\ nSent < Len(HeartbeatsWritten)
    /\ PeerSend(Frame(HEARTBEAT_RET, HeartbeatsWritten[nSent + 1].head, ""))

\* The client on a connection that stays up, with a server that acknowledges
\* its heartbeats, in time or late.
NextAcks ==
    \/ \E t \in Live : NewSession(t)
    \/ \E t \in Live : Dial_Connect(t)
    \/ \E t \in Live : handleRead_check(t)
    \/ \E t \in Live : Reader_read(t)
    \/ \E t \in Live : Reader_push(t)
    \/ \E t \in Live : handleWrite_check(t)
    \/ \E t \in Live : handleWrite_recv(t)
    \/ \E t \in Live : handleWrite_write(t)
    \/ \E t \in Live : doWrite_check(t)
    \/ \E t \in Live : doWrite_send(t)
    \/ \E t \in Live : processInData_loop(t)
    \/ \E t \in Live : TcpClient_recvData(t)
    \/ \E t \in Live : ticker_Reset(t)
    \/ \E t \in Live : heartbeat_loop(t)
    \/ \E t \in Live : heartbeat_tick(t)
    \/ \E t \in Live : heartbeat_recvRet(t)
    \/ \E t \in Live : heartbeat_timeout(t)
    \/ TimerFires
    \/ AckPeer

SpecAcks == InitClient /\ [][NextAcks]_vars

\* The heartbeat tasks waiting for an acknowledgment.
Waiting == { t \in Live : t.kind = "heartbeat" /\ t.pc = "select" }

\* C31: while the heartbeat task waits for an acknowledgment, the delivery of
\* any HEARTBEAT_RET the client has received can end the wait, whatever its
\* id; and every delivery ends the wait of the heartbeat task, which goes
\* back to the head of its loop holding the id it was given, equal to the id
\* it waited for or not.
C31_AnyAckEndsWait ==
    /\ [](\A t \in Waiting :
            (Acking # {} /\ ~crashed) => ENABLED heartbeat_recvRet(t))
    /\ [][\A h \in Acking :
            (~cHeartbeatClosed /\ CopiesIn(h, procs') < CopiesIn(h, procs))
            => \E t \in Waiting :
                  /\ CopiesIn(t, procs') < CopiesIn(t, procs)
                  /\ CopiesIn([t EXCEPT !.pc = "loop",
                                        !.f = Beat(t.f.head, h.f.head)],
                              procs') = 1]_vars

\* The wait for the acknowledgment of a heartbeat was ended by the
\* acknowledgment of an earlier heartbeat, whose own wait had timed out.
C31_Witness ==
    \E t \in Live :
       /\ t.kind = "heartbeat" /\ t.pc = "loop"
       /\ t.f.dType = HEARTBEAT
       /\ t.f.sid # 0 /\ t.f.sid # t.f.head
       /\ \E e \in enqueued :
             e.frame = Frame(HEARTBEAT, t.f.sid, "") /\ e.at < Cardinality(enqueued) - 1
       /\ \E e \in enqueued : e.frame = Frame(HEARTBEAT, t.f.head, "")

(***************************************************************************)
(* doWrite against Release.                                                *)
(***************************************************************************)
\* C32: no doWrite that has passed its state check reaches its send on the
\* outbound queue after Release has closed the queue.
C32_NoSendOnClosedQueue ==
    [][\A t \in Live : doWrite_send(t) => ~outDataClosed]_vars

(***************************************************************************)
(* The waiters of the RPC client at the end of their life.                 *)
(***************************************************************************)
\* C33: no Message handler of the RPC client sends to a waiter that has been
\* closed, and none closes a waiter that has been closed, whatever other
\* Message handlers and the Close handler have done in between.
C33_WaiterNeverMisused ==
    [][\A t \in Live :
         /\ ~Client_Message_sendClosed(t)
         /\ Client_Message_close(t) => t.ch \notin chClosed]_vars

(***************************************************************************)
(* The inbound queue at teardown.                                          *)
(***************************************************************************)
\* C34: when the Close event is raised, no frame that the read pump pushed
\* is left on the inbound queue: the dispatch task has taken them all.
C34_NoFrameLeftAtClose ==
    [][Raised("Close")' # Raised("Close") => inData = <<>>]_vars

(***************************************************************************)
(* The heartbeat-acknowledgment channel at the client's Close.             *)
(***************************************************************************)
\* C35: no task that forwards a HEARTBEAT_RET to the heartbeat task finds
\* cHeartbeat closed: Close never closes the channel while a forwarding task
\* is at its send or can still reach it.
C35_NoForwardOnClosedChannel ==
    [][\A h \in Acking : ~handleHeartbeatRet_closed(h)]_vars

(***************************************************************************)
(* The heartbeat task after the client's Close.                            *)
(***************************************************************************)
\* The heartbeat task has not returned.
Beating == \E t \in Live : t.kind = "heartbeat"

\* C36: once the client is closed the heartbeat task terminates.  When the
\* timer is stopped with nothing left in its channel, the connection is gone
\* and no goroutine of the client can take another step, the heartbeat task
\* is not among those left.
C36_HeartbeatTerminates ==
    (/\ ~isOpen /\ ~crashed
     /\ ~ticker.armed /\ ticker.c = 0
     /\ peerClosed
     /\ ~ENABLED NextBeats)
    => ~Beating

(***************************************************************************)
(* Connect before every other event, and the session table at a lookup.    *)
(***************************************************************************)
\* The Message events the step raises for requests that name a method to run.
RequestsHandled ==
    { x \in events' \ events :
        x.ev = "Message" /\ Outcome(x.body) \in {"reply", "ack"} }

\* C37: the Connect event of a session is raised once, and before its dispatch
\* task, any of its handlers and any of its Message, Heartbeat and Close
\* events; and the Message handler of the RPC server finds the session of the
\* frame in Server.sessions: for a request that names a method it goes on to
\* answer on that session.
C37_ConnectFirstSessionFound ==
    /\ [](Cardinality(Raised("Connect")) <= 1)
    /\ [](\A x \in events : x.ev # "Connect" => x.connects = 1)
    /\ [](\A t \in Live :
            t.kind \in {"processInData", "Message", "Heartbeat",
                        "handleHeartbeatRet"}
            => Raised("Connect") # {})
    /\ [](\A t \in Live :
            (side = "server" /\ t.kind = "Message" /\ t.pc = "run")
            => fd \in DOMAIN sessions /\ sessions[fd] = Self)
    /\ [][\A x \in RequestsHandled :
            /\ ~crashed'
            /\ \E u \in BagToSet(procs') :
                  /\ u.kind = "Message" /\ u.pc = "dw_check"
                  /\ u.f.dType = DATA /\ u.f.head = x.head]_vars

(***************************************************************************)
(* Call: the waiter is registered before the request is sent.              *)
(***************************************************************************)
\* The requests the server has read, in order.
RequestsWritten == SelectSeq(written, LAMBDA w : w.dType = DATA)

\* Server.Message answers a request with a DATA frame of the same id, with
\* the encoded return values or an empty body: the server's next answer, sent
\* once the request has reached it.
AnswerPeer ==
    /\ nSent < Len(RequestsWritten)
    /\ \E b \in {"ret", ""} :
          PeerSend(Frame(DATA, RequestsWritten[nSent + 1].head, b))

\* The RPC client through the teardown of its connection, with a server that
\* answers the requests it has read.
NextAnswer ==
    \/ SessionNext
    \/ DialNext
    \/ \E v \in {"call", "nojson"} : AppCall(v, MaxClosingCalls)
    \/ CallNext
    \/ AnswerPeer
    \/ PeerClose

SpecAnswer == InitClient /\ [][NextAnswer]_vars

\* The Calls inside doWrite: past the registration, the request not yet on
\* the outbound queue.
CallsSending ==
    { t \in Live : t.kind = "Call" /\ t.pc \in {"dw_check", "dw_send"} }

\* The Message handlers of the client about to look their id up.
Lookups == { t \in Live : t.kind = "Message" /\ t.pc = "run" }

\* A Call whose arguments do not encode ends where it finds that out: it
\* leaves the table, the outbound queue and what was enqueued as they are.
EncodeFailureInert ==
    /\ \A t \in Live : (t.kind = "Call" /\ t.f.body = "nojson") => t.pc = "getId"
    /\ \A e \in enqueued : e.frame.body # "nojson"
    /\ \A r \in results : r.id \in DOMAIN callRet => r.body # "nil" \/ r.head # 0
                                                     \/ callRet[r.id] = r.caller

\* C38: a Call in doWrite has its waiter in the table under its id, so the
\* entry exists when the response to its request is looked up; a Call whose
\* arguments fail to encode registers nothing and sends nothing.
C38_EntryExistsAtResponse ==
    /\ [](\A t \in CallsSending :
            Raised("Close") = {} => (t.f.head \in DOMAIN callRet
                                     /\ callRet[t.f.head] = t.ch))
    /\ [](\A t \in Lookups : side = "client" => t.f.head \in DOMAIN callRet)
    /\ []EncodeFailureInert

\* C38, amended: the same, with the entry existing when the response is
\* looked up unless the Close handler has emptied the table in between.
C38_EntryExistsUntilClose ==
    /\ [](\A t \in CallsSending :
            Raised("Close") = {} => (t.f.head \in DOMAIN callRet
                                     /\ callRet[t.f.head] = t.ch))
    /\ [](\A t \in Lookups :
            (side = "client" /\ Raised("Close") = {})
            => t.f.head \in DOMAIN callRet)
    /\ []EncodeFailureInert

\* The response to a Call was looked up, found its waiter and was returned by
\* the Call, on a connection that is still up.
C38_Witness ==
    /\ Raised("Close") = {}
    /\ \E r \in results : r.head = r.id /\ r.body = "ret"

(***************************************************************************)
(* A response whose id has no entry in the pending-call table.             *)
(***************************************************************************)
\* The RPC client with one Call and the application's Sends on a connection
\* that stays up, with a server that answers every request it has read, those
\* of the Sends included.
NextReply ==
    \/ \E t \in Live : NewSession(t)
    \/ \E t \in Live : Dial_Connect(t)
    \/ \E t \in Live : handleRead_check(t)
    \/ \E t \in Live : Reader_read(t)
    \/ \E t \in Live : Reader_push(t)
    \/ \E t \in Live : handleWrite_check(t)
    \/ \E t \in Live : handleWrite_recv(t)
    \/ \E t \in Live : handleWrite_write(t)
    \/ \E t \in Live : doWrite_check(t)
    \/ \E t \in Live : doWrite_send(t)
    \/ \E t \in Live : processInData_loop(t)
    \/ \E t \in Live : TcpClient_recvData(t)
    \/ \E t \in Live : ticker_Reset(t)
    \/ \E t \in Live : heartbeat_loop(t)
    \/ AppCall("call", MaxClosingCalls)
    \/ \E t \in Live : Call_getId(t)
    \/ \E t \in Live : Call_register(t)
    \/ \E t \in Live : Call_recv(t)
    \/ \E t \in Live : Call_timeout(t)
    \/ \E t \in Live : Client_Message(t)
    \/ \E t \in Live : Client_Message_delete(t)
    \/ \E t \in Live : Client_Message_close(t)
    \/ AppSend("call")
    \/ \E t \in Live : Client_Send(t)
    \/ AnswerPeer

SpecReply == InitClient /\ [][NextReply]_vars

\* The Calls waiting for their response.
CallsWaiting == { t \in Live : t.kind = "Call" /\ t.pc = "wait" }

\* C39: a DATA frame whose id has no entry in the pending-call table has no
\* effect: its Message handler returns at the lookup, the table, the waiter
\* channels and the results of the Calls are unchanged and no Call is woken.
C39_UnknownIdIgnored ==
    [][\A t \in Lookups :
          (/\ side = "client"
           /\ t.f.head \notin DOMAIN callRet
           /\ CopiesIn(t, procs') < CopiesIn(t, procs))
          => /\ procs' = Kill(procs, t)
             /\ callRet' = callRet
             /\ chClosed' = chClosed
             /\ results' = results
             /\ ~crashed']_vars

\* The server's reply to a Send has been handled while a Call was waiting
\* under another id: the Call still waits, its entry in place.
C39_Witness ==
    /\ ~crashed
    /\ Raised("Close") = {}
    /\ nSent = 1 /\ wire = <<>> /\ inData = <<>>
    /\ \A u \in Live : u.kind # "Message" /\ ~(u.kind = "handleRead" /\ u.pc = "push")
    /\ results = {}
    /\ \E t \in CallsWaiting :
          /\ t.f.head \in DOMAIN callRet
          /\ callRet[t.f.head] = t.ch
          /\ t.ch \notin chClosed
          /\ RequestsWritten[1].head # t.f.head

(***************************************************************************)
(* The RPC server's session table over the life of a connection.           *)
(***************************************************************************)
\* The RPC server with the modelled connection, from its accept to its
\* teardown, and one other connection accepted at any time; Server.Connect
\* does not panic.
NextTable ==
    \/ SessionNext
    \/ \E t \in Live : NewSession(t)
    \/ \E t \in Live : handleNewConn_Connect(t, FALSE)
    \/ \E t \in Live : handleNewConn_Connect_race(t)
    \/ \E t \in Live : processInData_loop(t)
    \/ \E t \in Live : TcpServer_recvData(t)
    \/ \E t \in Live : TcpServer_recvClose(t)
    \/ \E t \in Live : TcpConn_Close(t)
    \/ \E t \in Live : Server_Heartbeat(t)
    \/ \E t \in Live : Server_Message(t)
    \/ \E t \in Live : \E fatal \in BOOLEAN : Server_Message_race(t, fatal)
    \/ OtherConn
    \/ \E t \in Live : Server_Connect_done(t)
    \/ Peer

SpecTable == Init /\ [][NextTable]_vars

\* C40: the session table only grows: no step removes an id, the Close event
\* changes nothing in it, and once Connect(fd, s) has been raised the table
\* maps fd to s in every later state, the states after s is CLOSED included.
C40_TableOnlyGrows ==
    /\ [][\A id \in DOMAIN sessions :
            id \in DOMAIN sessions' /\ sessions'[id] = sessions[id]]_vars
    /\ [][Raised("Close")' # Raised("Close") => sessions' = sessions]_vars
    /\ [](\A e \in Raised("Connect") :
            e.fd \in DOMAIN sessions /\ sessions[e.fd] = Self)

====
